---- MODULE Spec2Model ----
(***************************************************************************)
(* Multi-tenant OAuth identity routing core of afilmory: the signed        *)
(* gateway-state codec, the OAuth callback gateway, the auth-instance      *)
(* cache and tenant registration.                                          *)
(*                                                                         *)
(* Text is modelled as a sequence of one-character strings, so that        *)
(* splitting, prefix tests, JSON and base64url are computed, not assumed.  *)
(***************************************************************************)
EXTENDS Integers, Sequences, FiniteSets, TLC

VARIABLES
  now,        \* Date.now(), epoch milliseconds
  ticks,      \* number of clock steps taken (bounds the run)
  cToken,     \* codec: the token at hand (Undefined when none)
  cEnc,       \* codec: the options and instant of the encodeGatewayState call
  cTamper,    \* codec: what was done to the token after encoding
  cDec,       \* codec: the decodeGatewayState call made at this instant, and its result
  gwConfig,   \* gateway: gatewayConfig, static
  gwIssued,   \* gateway: the wrapped state some sign-in was given (undefined when none)
  gwReq,      \* gateway: the callback request being answered
  gwResp,     \* gateway: its response
  gwSeen,     \* gateway: an earlier request and the response it got (history)
  aOptions,   \* auth: what AuthConfig.getOptions() resolves to now
  aCalls,     \* auth: the getAuth() calls, each with its position
  aPromises,  \* auth: the createAuthForEndpoint calls made, in order, each a promise
  aInstances, \* auth: AuthProvider.instances, cache key -> index in aPromises
  rTenant,    \* registration: the row of the tenant in the tenants table
  rUsers,     \* registration: the authUsers rows, user id -> row
  rSettings,  \* registration: the settings stored for the tenant
  rCalls,     \* registration: the finalizePendingTenant calls, each with its position
  uTenants,   \* registration: the slugs tenantRepository.findBySlug finds a tenant for
  uCall,      \* registration: the generateUniqueSlug call, its position and its lookups
  tStore,     \* resolver: the tenants, their custom domains, the settings
  tReq,       \* resolver: the request at hand and what is attached to it
  tOut,       \* resolver: what the last call made for the request returned
  hRows,      \* hooks: the user, session and account rows created
  hOut,       \* hooks: the outcome of the last create
  nTenants,   \* registration: the rows of the tenants table seen by registerNewTenant
  nUsers,     \* registration: the authUsers rows seen by registerNewTenant
  nCalls,     \* registration: the registerNewTenant calls, each with its position
  kChain,     \* auth controller: a callback request and the redirects followed from it
  xPending,   \* TransactionalStorageManager.pendingUploads
  xPersisted, \* the keys of TransactionalStorageManager.persistedUploads, in insertion order
  xFlush,     \* a flushUploads call: its batch and its position in it
  xRollback,  \* a rollbackUploads call: its keys and its position in them
  xStore,     \* the underlying storage: the entries written and the deletions attempted
  xHist,      \* what has been asked of the manager so far
  mComments,  \* the comments table, in the order of createdAt
  mResp,      \* the last answer of the CommentService
  fUsers,     \* the authUsers rows the notification listener reads
  fEvent,     \* the comment.created event at hand
  fRun,       \* the listener: its position, sentEmails, the admins still to visit, the mails sent
  oFlow       \* OAuth flow: the sign-in made and the callback landed on the tenant host

codecVars == <<cToken, cEnc, cTamper, cDec>>
gwVars == <<gwConfig, gwIssued, gwReq, gwResp, gwSeen>>
\* what each part of the system leaves alone
authVars == <<aOptions, aCalls, aPromises, aInstances>>
regVars == <<rTenant, rUsers, rSettings, rCalls>>
slugVars == <<uTenants, uCall>>
resVars == <<tStore, tReq, tOut>>
hookVars == <<hRows, hOut>>
newVars == <<nTenants, nUsers, nCalls>>
cbVars == <<kChain>>
txVars == <<xPending, xPersisted, xFlush, xRollback, xStore, xHist>>
cmVars == <<mComments, mResp>>
nfVars == <<fUsers, fEvent, fRun>>
notCodecVars == <<gwVars, authVars, regVars, resVars, hookVars, oFlow, slugVars, newVars, cbVars, txVars, cmVars, nfVars>>
notGwVars == <<codecVars, authVars, regVars, resVars, hookVars, oFlow, slugVars, newVars, cbVars, txVars, cmVars, nfVars>>
notAuthVars == <<now, ticks, codecVars, gwVars, regVars, resVars, hookVars, oFlow, slugVars, newVars, cbVars, txVars, cmVars, nfVars>>
notRegVars == <<now, ticks, codecVars, gwVars, authVars, resVars, hookVars, oFlow, slugVars, newVars, cbVars, txVars, cmVars, nfVars>>
notResVars == <<now, ticks, codecVars, gwVars, authVars, regVars, hookVars, oFlow, slugVars, newVars, cbVars, txVars, cmVars, nfVars>>
notHookVars == <<now, ticks, codecVars, gwVars, authVars, regVars, tReq, tOut, oFlow, slugVars, newVars, cbVars, txVars, cmVars, nfVars>>
notSlugVars == <<now, ticks, codecVars, gwVars, authVars, regVars, resVars, hookVars, oFlow, newVars, cbVars, txVars, cmVars, nfVars>>
notNfVars == <<now, ticks, codecVars, gwVars, authVars, regVars, slugVars, resVars, hookVars, oFlow, newVars, cbVars, txVars, cmVars>>
notCmVars == <<now, ticks, codecVars, gwVars, authVars, regVars, slugVars, resVars, hookVars, oFlow, newVars, cbVars, txVars, nfVars>>
notTxVars == <<now, ticks, codecVars, gwVars, authVars, regVars, slugVars, resVars, hookVars, oFlow, newVars, cbVars, cmVars, nfVars>>
notCbVars == <<now, ticks, codecVars, gwVars, authVars, regVars, slugVars, resVars, hookVars, oFlow, newVars, txVars, cmVars, nfVars>>
notNewVars == <<now, ticks, codecVars, gwVars, authVars, regVars, slugVars, resVars, hookVars, oFlow, cbVars, txVars, cmVars, nfVars>>

(***************************************************************************)
(* JavaScript values                                                       *)
(***************************************************************************)
Undefined == [t |-> "undefined"]
Null == [t |-> "null"]
JStr(s) == [t |-> "string", s |-> s]
JNum(n) == [t |-> "number", n |-> n]
IsStr(v) == v.t = "string"
IsNum(v) == v.t = "number"
IsNullish(v) == v.t \in {"undefined", "null"}
\* a ?? b
Coalesce(a, b) == IF IsNullish(a) THEN b ELSE a
\* truthiness of a string, null or undefined value
Truthy(v) ==
  CASE v.t = "string" -> Len(v.s) > 0
    [] v.t = "number" -> v.n # 0
    [] v.t = "object" -> TRUE
    [] OTHER -> FALSE

(***************************************************************************)
(* Characters (printable ASCII; the grave accent has no string literal and  *)
(* is named)                                                               *)
(***************************************************************************)
Ascii ==
  <<" ", "!", "\"", "#", "$", "%", "&", "'", "(", ")", "*", "+", ",", "-", ".", "/",
    "0", "1", "2", "3", "4", "5", "6", "7", "8", "9", ":", ";", "<", "=", ">", "?",
    "@", "A", "B", "C", "D", "E", "F", "G", "H", "I", "J", "K", "L", "M", "N", "O",
    "P", "Q", "R", "S", "T", "U", "V", "W", "X", "Y", "Z", "[", "\\", "]", "^", "_",
    "GRAVE", "a", "b", "c", "d", "e", "f", "g", "h", "i", "j", "k", "l", "m", "n", "o",
    "p", "q", "r", "s", "t", "u", "v", "w", "x", "y", "z", "{", "|", "}", "~">>

AsciiChars == {Ascii[i] : i \in 1..Len(Ascii)}
\* the UTF-8 byte of an ASCII character
CodeOf == [c \in AsciiChars |-> 31 + (CHOOSE i \in 1..Len(Ascii) : Ascii[i] = c)]
\* the character of a byte; bytes that are no printable ASCII decode to U+FFFD
ReplacementChar == "U+FFFD"
CharOf(b) == IF b \in 32..126 THEN Ascii[b - 31] ELSE ReplacementChar

Digits == <<"0", "1", "2", "3", "4", "5", "6", "7", "8", "9">>
DigitChars == {Digits[i] : i \in 1..10}
DigitVal == [c \in DigitChars |-> (CHOOSE i \in 1..10 : Digits[i] = c) - 1]
LowerChars == {Ascii[i] : i \in 66..91}
UpperChars == {Ascii[i] : i \in 34..59}
ToLowerChar(c) == IF c \in UpperChars THEN CharOf(CodeOf[c] + 32) ELSE c
ToLower(s) == [i \in 1..Len(s) |-> ToLowerChar(s[i])]

\* s.startsWith(p)
StartsWith(s, p) == Len(s) >= Len(p) /\ SubSeq(s, 1, Len(p)) = p
\* the index of the first c in s, 0 when there is none
IndexOf(s, c) ==
  IF \E i \in 1..Len(s) : s[i] = c
  THEN CHOOSE i \in 1..Len(s) : s[i] = c /\ \A j \in 1..(i - 1) : s[j] # c
  ELSE 0
\* s.split(c)
RECURSIVE Split(_, _)
Split(s, c) ==
  LET i == IndexOf(s, c)
  IN IF i = 0 THEN <<s>>
     ELSE <<SubSeq(s, 1, i - 1)>> \o Split(SubSeq(s, i + 1, Len(s)), c)

(***************************************************************************)
(* base64url (Buffer.from(x, 'utf8').toString('base64url') and back)       *)
(***************************************************************************)
B64 ==
  <<"A", "B", "C", "D", "E", "F", "G", "H", "I", "J", "K", "L", "M", "N", "O", "P",
    "Q", "R", "S", "T", "U", "V", "W", "X", "Y", "Z", "a", "b", "c", "d", "e", "f",
    "g", "h", "i", "j", "k", "l", "m", "n", "o", "p", "q", "r", "s", "t", "u", "v",
    "w", "x", "y", "z", "0", "1", "2", "3", "4", "5", "6", "7", "8", "9", "-", "_">>
B64Chars == {B64[i] : i \in 1..64}
B64Val == [c \in B64Chars |-> (CHOOSE i \in 1..64 : B64[i] = c) - 1]

RECURSIVE B64EncodeBytes(_)
B64EncodeBytes(bs) ==
  CASE Len(bs) = 0 -> <<>>
    [] Len(bs) = 1 ->
         <<B64[(bs[1] \div 4) + 1], B64[((bs[1] % 4) * 16) + 1]>>
    [] Len(bs) = 2 ->
         <<B64[(bs[1] \div 4) + 1],
           B64[((bs[1] % 4) * 16) + (bs[2] \div 16) + 1],
           B64[((bs[2] % 16) * 4) + 1]>>
    [] OTHER ->
         <<B64[(bs[1] \div 4) + 1],
           B64[((bs[1] % 4) * 16) + (bs[2] \div 16) + 1],
           B64[((bs[2] % 16) * 4) + (bs[3] \div 64) + 1],
           B64[(bs[3] % 64) + 1]>> \o B64EncodeBytes(SubSeq(bs, 4, Len(bs)))

base64UrlEncode(input) ==
  B64EncodeBytes([i \in 1..Len(input) |-> CodeOf[input[i]]])

RECURSIVE B64DecodeSextets(_)
B64DecodeSextets(xs) ==
  CASE Len(xs) <= 1 -> <<>>
    [] Len(xs) = 2 -> <<(xs[1] * 4) + (xs[2] \div 16)>>
    [] Len(xs) = 3 ->
         <<(xs[1] * 4) + (xs[2] \div 16), ((xs[2] % 16) * 16) + (xs[3] \div 4)>>
    [] OTHER ->
         <<(xs[1] * 4) + (xs[2] \div 16),
           ((xs[2] % 16) * 16) + (xs[3] \div 4),
           ((xs[3] % 4) * 64) + xs[4]>> \o B64DecodeSextets(SubSeq(xs, 5, Len(xs)))

\* Buffer.from stops at the first character outside the alphabet
B64ValidPrefix(s) ==
  IF \A i \in 1..Len(s) : s[i] \in B64Chars THEN s
  ELSE SubSeq(s, 1, (CHOOSE i \in 1..Len(s) :
                       s[i] \notin B64Chars /\ \A j \in 1..(i - 1) : s[j] \in B64Chars) - 1)

base64UrlDecode(input) ==
  LET p == B64ValidPrefix(input)
      bytes == B64DecodeSextets([i \in 1..Len(p) |-> B64Val[p[i]]])
  IN [i \in 1..Len(bytes) |-> CharOf(bytes[i])]

(***************************************************************************)
(* JSON.stringify and JSON.parse on flat objects of strings, numbers, null *)
(***************************************************************************)
RECURSIVE NatToStr(_)
NatToStr(n) == IF n < 10 THEN <<Digits[n + 1]>> ELSE NatToStr(n \div 10) \o <<Digits[(n % 10) + 1]>>
NumToStr(n) == IF n < 0 THEN <<"-">> \o NatToStr(0 - n) ELSE NatToStr(n)

RECURSIVE JsonEscape(_)
JsonEscape(s) ==
  IF Len(s) = 0 THEN <<>>
  ELSE (IF Head(s) \in {"\"", "\\"} THEN <<"\\", Head(s)>> ELSE <<Head(s)>>) \o JsonEscape(Tail(s))

JsonValueText(v) ==
  CASE v.t = "string" -> <<"\"">> \o JsonEscape(v.s) \o <<"\"">>
    [] v.t = "number" -> NumToStr(v.n)
    [] OTHER -> <<"n", "u", "l", "l">>

\* members: a sequence of <<key, value>>; a member whose value is undefined is left out
RECURSIVE JsonMembersText(_, _)
JsonMembersText(ms, first) ==
  IF Len(ms) = 0 THEN <<>>
  ELSE LET m == Head(ms)
       IN IF m[2].t = "undefined" THEN JsonMembersText(Tail(ms), first)
          ELSE (IF first THEN <<>> ELSE <<",">>)
               \o <<"\"">> \o JsonEscape(m[1]) \o <<"\"", ":">> \o JsonValueText(m[2])
               \o JsonMembersText(Tail(ms), FALSE)

JSONstringify(ms) == <<"{">> \o JsonMembersText(ms, TRUE) \o <<"}">>

ParseFail == [ok |-> FALSE]

\* the characters of a string literal from position i (after the opening quote)
RECURSIVE ScanString(_, _, _)
ScanString(t, i, acc) ==
  IF i > Len(t) THEN ParseFail
  ELSE IF t[i] = "\"" THEN [ok |-> TRUE, v |-> JStr(acc), next |-> i + 1]
  ELSE IF t[i] = "\\"
    THEN IF i + 1 <= Len(t) /\ t[i + 1] \in {"\"", "\\"}
         THEN ScanString(t, i + 2, Append(acc, t[i + 1]))
         ELSE ParseFail
  ELSE ScanString(t, i + 1, Append(acc, t[i]))

RECURSIVE ScanDigits(_, _, _)
ScanDigits(t, i, acc) ==
  IF i <= Len(t) /\ t[i] \in DigitChars
  THEN ScanDigits(t, i + 1, (acc * 10) + DigitVal[t[i]])
  ELSE [v |-> acc, next |-> i]

ParseNumber(t, i) ==
  LET neg == t[i] = "-"
      start == IF neg THEN i + 1 ELSE i
      d == ScanDigits(t, start, 0)
  IN IF d.next = start THEN ParseFail
     ELSE [ok |-> TRUE, v |-> JNum(IF neg THEN 0 - d.v ELSE d.v), next |-> d.next]

ParseValue(t, i) ==
  IF i > Len(t) THEN ParseFail
  ELSE IF t[i] = "\"" THEN ScanString(t, i + 1, <<>>)
  ELSE IF t[i] = "-" \/ t[i] \in DigitChars THEN ParseNumber(t, i)
  ELSE IF i + 3 <= Len(t) /\ SubSeq(t, i, i + 3) = <<"n", "u", "l", "l">>
    THEN [ok |-> TRUE, v |-> Null, next |-> i + 4]
  ELSE ParseFail

RECURSIVE ParseMembers(_, _, _)
ParseMembers(t, i, acc) ==
  IF i > Len(t) \/ t[i] # "\"" THEN ParseFail
  ELSE LET k == ScanString(t, i + 1, <<>>)
       IN IF ~k.ok THEN ParseFail
          ELSE IF k.next > Len(t) \/ t[k.next] # ":" THEN ParseFail
          ELSE LET v == ParseValue(t, k.next + 1)
               IN IF ~v.ok THEN ParseFail
                  ELSE IF v.next > Len(t) THEN ParseFail
                  ELSE IF t[v.next] = ","
                    THEN ParseMembers(t, v.next + 1, Append(acc, <<k.v.s, v.v>>))
                  ELSE IF t[v.next] = "}" /\ v.next = Len(t)
                    THEN [ok |-> TRUE, v |-> Append(acc, <<k.v.s, v.v>>)]
                  ELSE ParseFail

\* JSON.parse: the parsed object as its members, or a failure (the SyntaxError)
JSONparse(t) ==
  IF t = <<"{", "}">> THEN [ok |-> TRUE, v |-> <<>>]
  ELSE IF Len(t) < 2 \/ t[1] # "{" THEN ParseFail
  ELSE ParseMembers(t, 2, <<>>)

\* obj[key]: the last member of that name, undefined when there is none
Member(ms, key) ==
  IF \E i \in 1..Len(ms) : ms[i][1] = key
  THEN ms[CHOOSE i \in 1..Len(ms) :
            ms[i][1] = key /\ \A j \in (i + 1)..Len(ms) : ms[j][1] # key][2]
  ELSE Undefined

(***************************************************************************)
(* StateCodec: encodeGatewayState / decodeGatewayState                     *)
(***************************************************************************)
DEFAULT_TTL_MS == 600000
DEFAULT_CLOCK_TOLERANCE_MS == 30000

K_innerState == <<"i", "n", "n", "e", "r", "S", "t", "a", "t", "e">>
K_tenantSlug == <<"t", "e", "n", "a", "n", "t", "S", "l", "u", "g">>
K_targetHost == <<"t", "a", "r", "g", "e", "t", "H", "o", "s", "t">>
K_issuedAt == <<"i", "s", "s", "u", "e", "d", "A", "t">>
K_expiresAt == <<"e", "x", "p", "i", "r", "e", "s", "A", "t">>

\* HMAC-SHA256 as an ideal MAC: the digest text is an injective function of
\* (secret, message) over the base64url alphabet (secrets hold no "_").
signPayload(payload, secret) == secret \o <<"_">> \o payload

\* a mutant: only the lengths are compared
safeCompare_LengthOnly(a, b) == Len(a) = Len(b)

safeCompare(a, b) == IF Len(a) # Len(b) THEN FALSE ELSE a = b

\* the payload object of encodeGatewayState, a mutant: targetHost is not defaulted to null
buildPayload_NoNullDefault(options, t) ==
  LET ttlMs == IF options.ttlMs = Undefined THEN DEFAULT_TTL_MS ELSE options.ttlMs.n
  IN << <<K_innerState, options.innerState>>,
        <<K_tenantSlug, options.tenantSlug>>,
        <<K_targetHost, options.targetHost>>,
        <<K_issuedAt, JNum(t)>>,
        <<K_expiresAt, JNum(t + ttlMs)>> >>

\* options: [secret, tenantSlug, innerState, targetHost, ttlMs]; t is Date.now()
buildPayload(options, t) ==
  LET ttlMs == IF options.ttlMs = Undefined THEN DEFAULT_TTL_MS ELSE options.ttlMs.n
  IN << <<K_innerState, options.innerState>>,
        <<K_tenantSlug, options.tenantSlug>>,
        <<K_targetHost, Coalesce(options.targetHost, Null)>>,
        <<K_issuedAt, JNum(t)>>,
        <<K_expiresAt, JNum(t + ttlMs)>> >>

encodeGatewayState(options, t) ==
  LET payload == buildPayload(options, t)
      encodedPayload == base64UrlEncode(JSONstringify(payload))
      signature == signPayload(encodedPayload, options.secret)
  IN encodedPayload \o <<".">> \o signature

\* a mutant: the boundary instant is rejected
isExpired_Inclusive(expiresAt, tolerance, t) == expiresAt + tolerance <= t

\* parsed.expiresAt + tolerance < now
isExpired(expiresAt, tolerance, t) == expiresAt + tolerance < t

\* a decoded payload: the parsed object
JObj(ms) == [t |-> "object", m |-> ms]
Field(obj, key) == IF obj.t = "object" THEN Member(obj.m, key) ELSE Undefined

\* token: a string, null or undefined; options: [secret, clockToleranceMs]
decodeGatewayState(token, options, t) ==
  IF ~Truthy(token) THEN Null
  ELSE LET parts == Split(token.s, ".")
       IN IF Len(parts) # 2 THEN Null
          ELSE LET encodedPayload == parts[1]
                   signature == parts[2]
                   expectedSignature == signPayload(encodedPayload, options.secret)
               IN IF ~safeCompare(expectedSignature, signature) THEN Null
                  ELSE LET r == JSONparse(base64UrlDecode(encodedPayload))
                       IN IF ~r.ok THEN Null
                          ELSE LET parsed == JObj(r.v)
                                   tolerance ==
                                     Coalesce(options.clockToleranceMs,
                                              JNum(DEFAULT_CLOCK_TOLERANCE_MS)).n
                               IN IF \/ ~IsStr(Field(parsed, K_innerState))
                                     \/ ~IsNum(Field(parsed, K_issuedAt))
                                     \/ ~IsNum(Field(parsed, K_expiresAt))
                                  THEN Null
                                  ELSE IF isExpired(Field(parsed, K_expiresAt).n, tolerance, t)
                                    THEN Null
                                    ELSE parsed

(***************************************************************************)
(* The codec driven over bounded inputs                                    *)
(***************************************************************************)
MaxTicks == 3
TickSteps == {1, 30000, 600000}

\* two secrets; they differ in more than one character, so that no one-character
\* change of a digest is the digest under the other secret
SecretA == <<"k", "A">>
SecretB == <<"q", "B">>
Secrets == {SecretA, SecretB}
SlugAc == <<"a", "c">>
HostH == <<"h", ".", "i", "o">>
CodecInnerStates == {<<>>, <<"v", "\"", "1">>}
CodecSlugs == {Null, JStr(SlugAc)}
CodecTargetHosts == {Undefined, Null, JStr(HostH)}
CodecTtls == {Undefined, JNum(1)}
CodecTolerances == {Undefined, JNum(0)}

\* texts a holder of the secret may sign that are no payload of the encoder
ForeignTexts ==
  { <<"{", "}">>,
    <<"n", "o", "t", " ", "j", "s", "o", "n">>,
    JSONstringify(<< <<K_innerState, JNum(7)>>, <<K_issuedAt, JNum(0)>>,
                     <<K_expiresAt, JNum(600000)>> >>),
    JSONstringify(<< <<K_innerState, JStr(<<"x">>)>>, <<K_issuedAt, JNum(0)>>,
                     <<K_expiresAt, JStr(<<"9">>)>> >>) }
\* tokens that are not two dot-separated parts
MalformedTokens ==
  { Undefined, Null, JStr(<<>>), JStr(<<"Z", "m", "9", "v">>),
    JStr(<<"Z", "m", ".", "9", ".", "v">>) }

NoEnc == [made |-> FALSE]
NoDec == [run |-> FALSE]

CodecInit ==
  /\ now = 0
  /\ ticks = 0
  /\ cToken = Undefined
  /\ cEnc = NoEnc
  /\ cTamper = "none"
  /\ cDec = NoDec

Tick(d) ==
  /\ ticks < MaxTicks
  /\ now' = now + d
  /\ ticks' = ticks + 1

CodecEncode(options) ==
  /\ ~cEnc.made
  /\ cTamper = "none"
  /\ cToken' = JStr(encodeGatewayState(options, now))
  /\ cEnc' = [made |-> TRUE, options |-> options, at |-> now]
  /\ UNCHANGED <<now, ticks, cTamper, cDec, notCodecVars>>

\* one character of the token is replaced by another one
CodecTamper(i, c) ==
  /\ cEnc.made
  /\ cTamper = "none"
  /\ ~cDec.run
  /\ ticks = 0
  /\ i \in 1..Len(cToken.s)
  /\ c # cToken.s[i]
  /\ cToken' = JStr([cToken.s EXCEPT ![i] = c])
  /\ cTamper' = LET dot == IndexOf(cToken.s, ".")
                IN IF i < dot THEN "payload" ELSE IF i = dot THEN "dot" ELSE "signature"
  /\ UNCHANGED <<now, ticks, cEnc, cDec, notCodecVars>>

CodecMalformed(tok) ==
  /\ ~cEnc.made
  /\ cTamper = "none"
  /\ cToken' = tok
  /\ cTamper' = "malformed"
  /\ UNCHANGED <<now, ticks, cEnc, cDec, notCodecVars>>

CodecForeign(text, secret) ==
  /\ ~cEnc.made
  /\ cTamper = "none"
  /\ cToken' = LET e == base64UrlEncode(text)
               IN JStr(e \o <<".">> \o signPayload(e, secret))
  /\ cTamper' = "foreign"
  /\ UNCHANGED <<now, ticks, cEnc, cDec, notCodecVars>>

CodecDecode(options) ==
  /\ cEnc.made \/ cTamper # "none"
  /\ ~cDec.run
  /\ cDec' = [run |-> TRUE, options |-> options, at |-> now,
              result |-> decodeGatewayState(cToken, options, now)]
  /\ UNCHANGED <<now, ticks, cToken, cEnc, cTamper, notCodecVars>>

\* time passes; the result of a decode call belongs to the instant of the call
CodecTick ==
  /\ cTamper \notin {"payload", "dot", "signature"}
  /\ \E d \in TickSteps : Tick(d)
  /\ cDec' = NoDec
  /\ UNCHANGED <<cToken, cEnc, cTamper, notCodecVars>>

CodecNext ==
  \/ \E secret \in Secrets, slug \in CodecSlugs, inner \in CodecInnerStates,
        host \in CodecTargetHosts, ttl \in CodecTtls :
       /\ host = Null => ticks = 0 /\ ttl = Undefined
       /\ CodecEncode([secret |-> secret, tenantSlug |-> slug, innerState |-> JStr(inner),
                    targetHost |-> host, ttlMs |-> ttl])
  \/ \E i \in 1..400, c \in {"A", "B"} :
       CodecTamper(i, c) /\ (c = "B" => cToken.s[i] = "A")
  \/ \E tok \in MalformedTokens : CodecMalformed(tok)
  \/ \E text \in ForeignTexts, secret \in Secrets : CodecForeign(text, secret)
  \/ \E secret \in Secrets, tol \in CodecTolerances :
       /\ cTamper \in {"payload", "dot", "signature"} => tol = Undefined
       /\ CodecDecode([secret |-> secret, clockToleranceMs |-> tol])
  \/ CodecTick

(***************************************************************************)
(* OAuthCallbackRouter: the gateway's callback route                       *)
(***************************************************************************)
\* URLSearchParams: get, set, delete (one value per name; order is not modelled)
ParamGet(q, name) == IF q[name] = Undefined THEN Null ELSE q[name]
ParamSet(q, name, v) == [q EXCEPT ![name] = v]
ParamDelete(q, name) == [q EXCEPT ![name] = Undefined]

SlugChars == LowerChars \cup DigitChars \cup {"-"}
HostChars == LowerChars \cup DigitChars \cup {"-", ".", ":"}
STR_localhost == <<"l", "o", "c", "a", "l", "h", "o", "s", "t">>
STR_https == <<"h", "t", "t", "p", "s">>
STR_http == <<"h", "t", "t", "p">>

\* the slug lower-cased when it is non-empty and within the slug character set
sanitizeTenantSlug(v) ==
  IF ~(IsStr(v) /\ Truthy(v)) THEN Null
  ELSE LET n == ToLower(v.s)
       IN IF \A i \in 1..Len(n) : n[i] \in SlugChars THEN JStr(n) ELSE Null

\* the host lower-cased when it is non-empty and a host name with an optional port
sanitizeExplicitHost(v) ==
  IF ~(IsStr(v) /\ Truthy(v)) THEN Null
  ELSE LET n == ToLower(v.s)
       IN IF \A i \in 1..Len(n) : n[i] \in HostChars THEN JStr(n) ELSE Null

\* explicit host override when permitted, else {slug}.{baseDomain} (the root slug
\* is the apex), else null
resolveTargetHost(config, tenantSlug, explicitHost) ==
  IF Truthy(explicitHost) /\ config.allowCustomHost THEN explicitHost
  ELSE IF Truthy(tenantSlug)
    THEN IF tenantSlug.s = config.rootSlug THEN JStr(config.baseDomain)
         ELSE JStr(tenantSlug.s \o <<".">> \o config.baseDomain)
  ELSE Null

looksLikeLocalhost(host) ==
  LET name == Split(host, ":")[1]
  IN \/ name = STR_localhost
     \/ StartsWith(name, <<"1", "2", "7", ".">>)
     \/ /\ Len(name) > 10
        /\ SubSeq(name, Len(name) - 9, Len(name)) = <<".">> \o STR_localhost

\* the destination URL: https unless the host looks like localhost and plain http
\* is allowed; the provider's callback path; every query parameter left
buildForwardLocation(config, provider, host, query) ==
  [ protocol |-> IF looksLikeLocalhost(host) /\ ~config.forceHttps THEN STR_http ELSE STR_https,
    host |-> host,
    path |-> config.callbackBasePath \o <<"/">> \o provider,
    query |-> query ]

GwError(code) == [made |-> TRUE, status |-> 400, error |-> code]
GwRedirect(location) == [made |-> TRUE, status |-> 302, location |-> location]

\* a mutant: the inner state is restored and the wrapped value is dropped
rewriteState_DropsWrapped(query, decodedState, originalStateParam) ==
  IF Truthy(Field(decodedState, K_innerState))
  THEN ParamSet(query, "state", Field(decodedState, K_innerState))
  ELSE query

\* index.ts 41-47: restore the inner state, keep the wrapped value as gatewayState
rewriteState(query, decodedState, originalStateParam) ==
  LET q1 == IF Truthy(Field(decodedState, K_innerState))
            THEN ParamSet(query, "state", Field(decodedState, K_innerState))
            ELSE query
  IN IF decodedState # Null /\ Truthy(originalStateParam)
     THEN ParamSet(q1, "gatewayState", originalStateParam)
     ELSE q1

\* a mutant: the host parameter is forwarded
stripRoutingParams_KeepsTargetHost(query) ==
  ParamDelete(ParamDelete(query, "tenant"), "tenantSlug")

\* a mutant: the legacy tenant parameter is forwarded
stripRoutingParams_KeepsTenant(query) ==
  ParamDelete(ParamDelete(query, "tenantSlug"), "targetHost")

\* index.ts 54-56
stripRoutingParams(query) ==
  ParamDelete(ParamDelete(ParamDelete(query, "tenant"), "tenantSlug"), "targetHost")

\* a mutant: a state is accepted once only
stateRejected_SingleUse(config, stateParam, decodedState) ==
  \/ Truthy(stateParam) /\ Len(config.stateSecret) > 0 /\ decodedState = Null
  \/ gwSeen.made /\ decodedState # Null /\ ParamGet(gwSeen.query, "state") = stateParam

\* a mutant: a state that fails to decode is treated as no state
stateRejected_Never(config, stateParam, decodedState) == FALSE

\* index.ts 37: a state is present, a secret is configured, decoding failed
stateRejected(config, stateParam, decodedState) ==
  Truthy(stateParam) /\ Len(config.stateSecret) > 0 /\ decodedState = Null

\* a mutant: the slug of the state wins over the explicit parameter
chooseTenantSlug_StateFirst(tenantSlugParam, tenantSlugFromState) ==
  Coalesce(tenantSlugFromState, Coalesce(tenantSlugParam, Undefined))

\* index.ts 50: tenantSlugParam ?? tenantSlugFromState ?? undefined
chooseTenantSlug(tenantSlugParam, tenantSlugFromState) ==
  Coalesce(tenantSlugParam, Coalesce(tenantSlugFromState, Undefined))

\* a mutant: an unresolved host falls back to the base domain
respondForHost_ApexFallback(config, provider, targetHost, query) ==
  GwRedirect(buildForwardLocation(config, provider,
    IF Truthy(targetHost) THEN targetHost.s ELSE config.baseDomain, query))

\* index.ts 71-82: no host, no redirect
respondForHost(config, provider, targetHost, query) ==
  IF ~Truthy(targetHost) THEN GwError("unresolvable_host")
  ELSE GwRedirect(buildForwardLocation(config, provider, targetHost.s, query))

\* callbackRouter.all('/:provider'): the response to a request at instant t
GatewayCallback(config, provider, query, t) ==
  IF Len(provider) = 0 THEN GwError("missing_provider")
  ELSE
    LET tenantSlugParam == Coalesce(ParamGet(query, "tenantSlug"), ParamGet(query, "tenant"))
        explicitHostParam == ParamGet(query, "targetHost")
        stateParam == ParamGet(query, "state")
        originalStateParam == stateParam
        decodedState ==
          IF Len(config.stateSecret) > 0 /\ Truthy(stateParam)
          THEN decodeGatewayState(stateParam,
                 [secret |-> config.stateSecret, clockToleranceMs |-> Undefined], t)
          ELSE Null
        q2 == rewriteState(query, decodedState, originalStateParam)
        tenantSlugFromState == Coalesce(Field(decodedState, K_tenantSlug), Null)
        tenantSlug == sanitizeTenantSlug(chooseTenantSlug(tenantSlugParam, tenantSlugFromState))
        explicitHostFromState == sanitizeExplicitHost(Field(decodedState, K_targetHost))
        explicitHost == Coalesce(sanitizeExplicitHost(explicitHostParam), explicitHostFromState)
        q3 == stripRoutingParams(q2)
        targetHost == resolveTargetHost(config, tenantSlug, explicitHost)
    IN IF stateRejected(config, stateParam, decodedState) THEN GwError("invalid_state")
       ELSE IF Truthy(tenantSlugParam) /\ ~Truthy(tenantSlug) THEN GwError("invalid_tenant")
       ELSE IF Truthy(Field(decodedState, K_tenantSlug)) /\ ~Truthy(tenantSlug)
         THEN GwError("invalid_tenant")
       ELSE IF Truthy(explicitHostParam) /\ ~Truthy(explicitHost) THEN GwError("invalid_host")
       ELSE respondForHost(config, provider, targetHost, q3)

(***************************************************************************)
(* The gateway driven over bounded requests                                *)
(***************************************************************************)
STR_callbackBasePath ==
  <<"/", "a", "p", "i", "/", "a", "u", "t", "h", "/", "c", "a", "l", "l", "b", "a", "c", "k">>
BaseDomain == <<"e", "x", ".", "i", "o">>
RootSlug == <<"r", "o", "o", "t">>
ProviderGithub == <<"g", "i", "t", "h", "u", "b">>
SlugBt == <<"b", "t">>
InnerV == <<"i", "n", "1">>
CodeXyz == <<"x", "y", "z">>

GwConfigs ==
  { [set |-> TRUE, baseDomain |-> BaseDomain, forceHttps |-> f,
     callbackBasePath |-> STR_callbackBasePath, allowCustomHost |-> a,
     rootSlug |-> RootSlug, stateSecret |-> SecretA] : f \in BOOLEAN, a \in BOOLEAN }

\* the states a sign-in may have been given: signed by the gateway's secret or
\* by another, with or without a slug (a valid or an invalid one) and a host
GwMintOptions ==
  { o \in
    { [secret |-> k, tenantSlug |-> sl, innerState |-> JStr(inner), targetHost |-> h,
     ttlMs |-> Undefined] :
      k \in Secrets, sl \in {Null, JStr(SlugAc), JStr(<<"a", "!">>)},
      inner \in {<<>>, InnerV}, h \in {Undefined, JStr(HostH)} } :
    o.secret = SecretB =>
      (o.tenantSlug = JStr(SlugAc) /\ o.innerState = JStr(InnerV) /\ o.targetHost = Undefined) }

\* the state parameter of a request: absent, empty, not a token, the issued
\* token, or the issued token with its first character changed
GwStateParams ==
  {Undefined, JStr(<<>>), JStr(<<"Z", "m", "9", "v">>)}
  \cup (IF gwIssued.made
        THEN {JStr(gwIssued.token),
              JStr([gwIssued.token EXCEPT ![1] = IF @ = "A" THEN "B" ELSE "A"])}
        ELSE {})

GwQueries ==
  { [state |-> st, gatewayState |-> gs, tenantSlug |-> ts, tenant |-> tn,
     targetHost |-> th, code |-> cd] :
      st \in GwStateParams,
      gs \in {Undefined, JStr(<<"o", "l", "d">>)},
      ts \in {Undefined, JStr(<<>>), JStr(SlugBt), JStr(<<"B", "!">>)},
      tn \in {Undefined, JStr(RootSlug)},
      th \in {Undefined, JStr(STR_localhost), JStr(<<"b", "/", "d">>)},
      cd \in {Undefined, JStr(CodeXyz)} }

GwMaxTicks == 2

GatewayInit ==
  /\ now = 0
  /\ ticks = 0
  /\ gwConfig \in GwConfigs
  /\ gwIssued = [made |-> FALSE]
  /\ gwReq = [made |-> FALSE]
  /\ gwResp = [made |-> FALSE]
  /\ gwSeen = [made |-> FALSE]

\* a sign-in is given a wrapped state
GwMint(options) ==
  /\ ~gwIssued.made
  /\ ticks = 0
  /\ ~gwReq.made
  /\ gwIssued' = [made |-> TRUE, options |-> options, at |-> now,
                  token |-> encodeGatewayState(options, now)]
  /\ UNCHANGED <<now, ticks, gwConfig, gwReq, gwResp, gwSeen, notGwVars>>

\* a callback request arrives and is answered
GwHandle(provider, query) ==
  /\ ~gwReq.made
  /\ gwReq' = [made |-> TRUE, provider |-> provider, query |-> query, at |-> now]
  /\ gwResp' = GatewayCallback(gwConfig, provider, query, now)
  /\ UNCHANGED <<now, ticks, gwConfig, gwIssued, gwSeen, notGwVars>>

\* the response is delivered; the service keeps nothing of the request
GwDone ==
  /\ gwReq.made
  /\ gwReq' = [made |-> FALSE]
  /\ gwResp' = [made |-> FALSE]
  /\ UNCHANGED <<now, ticks, gwConfig, gwIssued, gwSeen, notGwVars>>

\* the clock is stepped to the last instant a token issued at 0 is accepted at,
\* and from there by one millisecond
GwTick ==
  /\ ~gwReq.made
  /\ ticks < GwMaxTicks
  /\ Tick(IF now = 0 THEN DEFAULT_TTL_MS + DEFAULT_CLOCK_TOLERANCE_MS ELSE 1)
  /\ UNCHANGED <<gwVars, notGwVars>>

GatewayNext ==
  \/ \E options \in GwMintOptions : GwMint(options)
  \/ \E query \in GwQueries :
       /\ query.gatewayState # Undefined => query.code # Undefined
       /\ GwHandle(ProviderGithub, query)
  \/ GwDone
  \/ GwTick

\* Two requests compared: an observer keeps one request and its response
\* while the service goes on answering.
GwPairQueries ==
  { [state |-> st, gatewayState |-> Undefined, tenantSlug |-> ts, tenant |-> Undefined,
     targetHost |-> Undefined, code |-> JStr(CodeXyz)] :
      st \in GwStateParams, ts \in {Undefined, JStr(SlugBt)} }

GwRemember ==
  /\ gwReq.made
  /\ gwSeen' = [made |-> TRUE, provider |-> gwReq.provider, query |-> gwReq.query,
                at |-> gwReq.at, resp |-> gwResp]
  /\ gwReq' = [made |-> FALSE]
  /\ gwResp' = [made |-> FALSE]
  /\ UNCHANGED <<now, ticks, gwConfig, gwIssued, notGwVars>>

GatewayPairNext ==
  \/ \E options \in GwMintOptions : GwMint(options)
  \/ \E query \in GwPairQueries : GwHandle(ProviderGithub, query)
  \/ GwRemember
  \/ GwDone
  \/ GwTick

(***************************************************************************)
(* AuthInstanceProvider: the cache of identity runtimes                    *)
(***************************************************************************)
RECURSIVE TrimStart(_)
TrimStart(s) == IF Len(s) > 0 /\ s[1] = " " THEN TrimStart(Tail(s)) ELSE s
RECURSIVE TrimEnd(_)
TrimEnd(s) == IF Len(s) > 0 /\ s[Len(s)] = " " THEN TrimEnd(SubSeq(s, 1, Len(s) - 1)) ELSE s
\* s.trim()
Trim(s) == TrimEnd(TrimStart(s))
\* s.includes(sub)
Includes(s, sub) ==
  \E i \in 1..(Len(s) - Len(sub) + 1) : SubSeq(s, i, i + Len(sub) - 1) = sub
\* a trimmed header value, null when it is empty
TrimOrNull(v) == LET t == Trim(v.s) IN IF Len(t) = 0 THEN Null ELSE JStr(t)

STR_null == <<"n", "u", "l", "l">>
ReservedSlugs == {<<"w", "w", "w">>, <<"a", "p", "i">>, <<"a", "u", "t", "h">>}

\* the leftmost label of a strict subdomain of the base domain, unless reserved
extractTenantSlugFromHost(host, baseDomain) ==
  LET name == Split(host, ":")[1]
      base == ToLower(Trim(baseDomain))
      k == Len(name) - Len(base) - 1
  IN IF k >= 1 /\ SubSeq(name, k + 1, Len(name)) = <<".">> \o base
     THEN LET label == Split(name, ".")[1]
          IN IF label \in ReservedSlugs \/ Len(label) = 0 THEN Null ELSE JStr(label)
     ELSE Null

resolveRequestEndpoint(req) ==
  [ host |-> TrimOrNull(Coalesce(req.forwardedHost, Coalesce(req.hostHeader, JStr(<<>>)))),
    protocol |-> TrimOrNull(Coalesce(req.forwardedProto, JStr(<<>>))) ]

\* a mutant: the tenant's own slug is preferred to the requested one
resolveTenantSlugFromContext_TenantFirst(req) ==
  LET slug == Coalesce(req.tenantSlug, req.requestedSlug)
  IN IF Truthy(slug) THEN JStr(ToLower(slug.s)) ELSE Null

resolveTenantSlugFromContext_PendingShared(req) ==
  IF req.isPlaceholder THEN JStr(<<"p", "e", "n", "d", "i", "n", "g">>)
  ELSE LET slug == Coalesce(req.requestedSlug, req.tenantSlug)
       IN IF Truthy(slug) THEN JStr(ToLower(slug.s)) ELSE Null

resolveTenantSlugFromContext(req) ==
  LET slug == Coalesce(req.requestedSlug, req.tenantSlug)
  IN IF Truthy(slug) THEN JStr(ToLower(slug.s)) ELSE Null

determineProtocol(host, provided) ==
  IF Truthy(provided) /\ (provided.s = STR_http \/ provided.s = STR_https) THEN provided.s
  ELSE IF \/ Includes(host, STR_localhost)
          \/ StartsWith(host, <<"1", "2", "7", ".">>)
          \/ StartsWith(host, <<"0", ".", "0", ".", "0", ".", "0">>)
    THEN STR_http
  ELSE STR_https

applyTenantSlugToHost(host, fallbackHost, tenantSlug) ==
  IF ~Truthy(tenantSlug) THEN host
  ELSE
    LET hostParts == Split(host, ":")
        hostName == hostParts[1]
        fallbackParts == Split(fallbackHost, ":")
        fallbackName == fallbackParts[1]
        portSegment == IF Len(hostParts) >= 2 THEN JStr(hostParts[2])
                       ELSE IF Len(fallbackParts) >= 2 THEN JStr(fallbackParts[2])
                       ELSE Undefined
    IN IF StartsWith(hostName, tenantSlug.s \o <<".">>) THEN host
       ELSE IF hostName # fallbackName THEN host
       ELSE IF Truthy(portSegment)
         THEN tenantSlug.s \o <<".">> \o fallbackName \o <<":">> \o portSegment.s
       ELSE tenantSlug.s \o <<".">> \o fallbackName

\* gatewayBaseUrl.replace(/\/+$/, '')
RECURSIVE stripTrailingSlashes(_)
stripTrailingSlashes(text) ==
  IF Len(text) > 0 /\ text[Len(text)] = "/"
  THEN stripTrailingSlashes(SubSeq(text, 1, Len(text) - 1))
  ELSE text

buildGatewayRedirectUri(gatewayBaseUrl, basePath) ==
  stripTrailingSlashes(gatewayBaseUrl) \o basePath

\* the callback URL of a provider, null when no gateway is configured
buildRedirectUri(provider, oauthGatewayUrl) ==
  LET basePath == <<"/", "a", "p", "i", "/", "a", "u", "t", "h", "/",
                    "c", "a", "l", "l", "b", "a", "c", "k", "/">> \o provider
  IN IF Truthy(oauthGatewayUrl)
     THEN JStr(buildGatewayRedirectUri(oauthGatewayUrl.s, basePath))
     ELSE Null

\* a mutant: the callback URL is put on the tenant's own subdomain of the gateway
buildBetterAuthProvidersForHost_PerTenant(tenantSlug, providers, oauthGatewayUrl) ==
  [ i \in DOMAIN providers |->
      LET redirectUri == buildRedirectUri(providers[i].provider, oauthGatewayUrl)
      IN [provider |-> providers[i].provider, clientId |-> providers[i].clientId,
          clientSecret |-> providers[i].clientSecret,
          redirectURI |-> IF Truthy(redirectUri)
                          THEN IF Truthy(tenantSlug)
                               THEN JStr(redirectUri.s \o <<"?">> \o tenantSlug.s)
                               ELSE redirectUri
                          ELSE Undefined] ]

\* the providers handed to the runtime; redirectURI is left out when there is none
buildBetterAuthProvidersForHost(tenantSlug, providers, oauthGatewayUrl) ==
  [ i \in DOMAIN providers |->
      LET redirectUri == buildRedirectUri(providers[i].provider, oauthGatewayUrl)
      IN [provider |-> providers[i].provider, clientId |-> providers[i].clientId,
          clientSecret |-> providers[i].clientSecret,
          redirectURI |-> IF Truthy(redirectUri) THEN redirectUri ELSE Undefined] ]

\* sha256 as an ideal hash: the digest stands for the text that was hashed
Sha256(text) == <<"#">> \o text

providerEntryText(entry) ==
  entry.provider \o <<"=">> \o entry.clientId \o <<"/">> \o
    (IF Len(entry.clientSecret) > 0 THEN Sha256(entry.clientSecret) ELSE STR_null)

RECURSIVE providerEntriesText(_)
providerEntriesText(entries) ==
  IF Len(entries) = 0 THEN <<>>
  ELSE providerEntryText(Head(entries)) \o <<",">> \o providerEntriesText(Tail(entries))

\* a mutant: the providers' credentials are left out of the signature
computeOptionsSignature_NoProviders(options) ==
  Sha256(options.baseDomain \o <<"|", "g", "a", "t", "e", "w", "a", "y", "=">> \o
         (IF IsNullish(options.oauthGatewayUrl) THEN STR_null ELSE options.oauthGatewayUrl.s))

\* socialProviders is kept as the entries sorted by provider name
computeOptionsSignature(options) ==
  Sha256(options.baseDomain \o <<"|", "g", "a", "t", "e", "w", "a", "y", "=">> \o
         (IF IsNullish(options.oauthGatewayUrl) THEN STR_null ELSE options.oauthGatewayUrl.s) \o
         providerEntriesText(options.socialProviders))

\* getAuth, from the options to the cache key
cacheKeyParts(req, options) ==
  LET endpoint == resolveRequestEndpoint(req)
      fallbackHost == ToLower(Trim(options.baseDomain))
      requestedHost == ToLower(Trim(Coalesce(endpoint.host, JStr(fallbackHost)).s))
      tenantSlugFromContext == resolveTenantSlugFromContext(req)
      tenantSlug == Coalesce(tenantSlugFromContext,
                             extractTenantSlugFromHost(requestedHost, options.baseDomain))
      host == applyTenantSlugToHost(
                IF Len(requestedHost) > 0 THEN requestedHost ELSE fallbackHost,
                fallbackHost, tenantSlug)
      protocol == determineProtocol(host, endpoint.protocol)
      optionSignature == computeOptionsSignature(options)
  IN [ tenantSlug |-> tenantSlug,
       cacheKey |-> protocol \o <<":", "/", "/">> \o host \o <<":", ":">> \o
                    (IF tenantSlug = Null THEN STR_null ELSE tenantSlug.s) \o
                    <<":", ":">> \o optionSignature ]

\* a mutant: the runtime is built on every call
cacheMiss_Always(instances, cacheKey) == TRUE

\* !this.instances.has(cacheKey)
cacheMiss(instances, cacheKey) == cacheKey \notin DOMAIN instances

(***************************************************************************)
(* getAuth() driven by concurrent requests                                 *)
(***************************************************************************)
MaxCalls == 2
AuthCallIds == 1..MaxCalls

ClientId1 == <<"i", "d", "1">>
OptionsV1 ==
  [ baseDomain |-> BaseDomain, oauthGatewayUrl |-> Null,
    socialProviders |-> << [provider |-> ProviderGithub, clientId |-> ClientId1,
                            clientSecret |-> <<"s", "1">>] >> ]
\* the provider's secret rotated
OptionsV2 ==
  [ baseDomain |-> BaseDomain, oauthGatewayUrl |-> Null,
    socialProviders |-> << [provider |-> ProviderGithub, clientId |-> ClientId1,
                            clientSecret |-> <<"s", "2">>] >> ]

\* the configuration after a change: the provider's secret rotated, its client
\* id replaced, the gateway URL set, the base domain moved
AuthChangedOptions ==
  { OptionsV2,
    [OptionsV1 EXCEPT !.socialProviders =
       << [provider |-> ProviderGithub, clientId |-> <<"i", "d", "2">>,
           clientSecret |-> <<"s", "1">>] >>],
    [OptionsV1 EXCEPT !.oauthGatewayUrl =
       JStr(STR_https \o <<":", "/", "/", "g", "w", ".", "i", "o", "/", "/">>)],
    [OptionsV1 EXCEPT !.baseDomain = <<"z", "z", ".", "i", "o">>] }

AuthReq(fh, hh, fp, rs, ts) ==
  [forwardedHost |-> fh, hostHeader |-> hh, forwardedProto |-> fp,
   requestedSlug |-> rs, tenantSlug |-> ts]

\* requests on the tenant's subdomain, on the apex with the tenant in the
\* context, through a proxy, over plain http, and with no tenant
AuthRequests ==
  { AuthReq(Undefined, JStr(SlugAc \o <<".">> \o BaseDomain), Undefined, Undefined, Undefined),
    AuthReq(Undefined, JStr(BaseDomain), Undefined, JStr(SlugAc), Undefined),
    AuthReq(JStr(<<" ", "A", "c", ".">> \o BaseDomain), JStr(STR_localhost), JStr(STR_https),
            Undefined, JStr(SlugAc)),
    AuthReq(Undefined, JStr(SlugAc \o <<".">> \o BaseDomain), JStr(STR_http), Undefined, Undefined),
    AuthReq(Undefined, JStr(BaseDomain), Undefined, Undefined, Undefined) }

\* the context names one slug, its tenant another, the host a third
AuthContextRequests ==
  { AuthReq(Undefined, JStr(SlugBt \o <<".">> \o BaseDomain), Undefined,
            JStr(<<"n", "w">>), JStr(SlugAc)),
    AuthReq(Undefined, JStr(SlugBt \o <<".">> \o BaseDomain), Undefined, Null, JStr(SlugAc)) }

AuthInit ==
  /\ aOptions = OptionsV1
  /\ aCalls = [c \in AuthCallIds |-> [pc |-> "idle"]]
  /\ aPromises = <<>>
  /\ aInstances = <<>>

\* a request handler calls getAuth(): the call waits for getOptions()
AuthCall(c, req) ==
  /\ aCalls[c].pc = "idle"
  /\ c > 1 => aCalls[c - 1].pc # "idle"
  /\ aCalls' = [aCalls EXCEPT ![c] = [pc |-> "getOptions", req |-> req]]
  /\ UNCHANGED <<aOptions, aPromises, aInstances, notAuthVars>>

\* getOptions() has resolved: the call runs, without suspending, from the
\* computation of the key to the await of the cached promise
AuthContinue(c) ==
  /\ aCalls[c].pc = "getOptions"
  /\ LET parts == cacheKeyParts(aCalls[c].req, aOptions)
         cacheKey == parts.cacheKey
     IN /\ IF cacheMiss(aInstances, cacheKey)
           THEN /\ aPromises' = Append(aPromises,
                      [cacheKey |-> cacheKey, tenantSlug |-> parts.tenantSlug,
                       options |-> aOptions, state |-> "pending",
                       socialProviders |->
                         buildBetterAuthProvidersForHost(parts.tenantSlug,
                           aOptions.socialProviders, aOptions.oauthGatewayUrl)])
                /\ aInstances' = [k \in DOMAIN aInstances \cup {cacheKey} |->
                                    IF k = cacheKey THEN Len(aPromises) + 1 ELSE aInstances[k]]
           ELSE UNCHANGED <<aPromises, aInstances>>
        /\ aCalls' = [aCalls EXCEPT ![c] =
                        [pc |-> "awaitInstance", req |-> @.req, cacheKey |-> cacheKey]]
  /\ UNCHANGED <<aOptions, notAuthVars>>

\* a mutant: a failed construction is taken out of the cache
AuthConstructed_EvictsFailure(p, outcome) ==
  /\ p \in 1..Len(aPromises)
  /\ aPromises[p].state = "pending"
  /\ aPromises' = [aPromises EXCEPT ![p].state = outcome]
  /\ aInstances' = IF outcome = "rejected"
                   THEN [k \in DOMAIN aInstances \ {aPromises[p].cacheKey} |-> aInstances[k]]
                   ELSE aInstances
  /\ UNCHANGED <<aOptions, aCalls, notAuthVars>>

\* a construction ends, with the runtime or with an error
AuthConstructed(p, outcome) ==
  /\ p \in 1..Len(aPromises)
  /\ aPromises[p].state = "pending"
  /\ aPromises' = [aPromises EXCEPT ![p].state = outcome]
  /\ UNCHANGED <<aOptions, aCalls, aInstances, notAuthVars>>

\* the awaited promise has settled: the call returns its runtime or throws
AuthReturn(c) ==
  /\ aCalls[c].pc = "awaitInstance"
  /\ LET p == aInstances[aCalls[c].cacheKey]
     IN /\ aPromises[p].state # "pending"
        /\ aCalls' = [aCalls EXCEPT ![c] =
                        [pc |-> "done", req |-> @.req, cacheKey |-> @.cacheKey,
                         outcome |-> aPromises[p].state, instance |-> p]]
  /\ UNCHANGED <<aOptions, aPromises, aInstances, notAuthVars>>

\* the configured options change
AuthConfigChange ==
  /\ aOptions = OptionsV1
  /\ aOptions' = OptionsV2
  /\ UNCHANGED <<aCalls, aPromises, aInstances, notAuthVars>>

\* the configured options change, in any of the ways that count
AuthReconfigure ==
  /\ aOptions = OptionsV1
  /\ aOptions' \in AuthChangedOptions
  /\ UNCHANGED <<aCalls, aPromises, aInstances, notAuthVars>>

\* a request handler calls getAuth() after the call before it has returned
AuthCallInTurn(c, req) ==
  /\ c > 1 => aCalls[c - 1].pc = "done"
  /\ AuthCall(c, req)

\* getAuth() called by one request after the other
AuthTurnsNext ==
  \/ \E c \in AuthCallIds, req \in AuthRequests \cup AuthContextRequests :
       AuthCallInTurn(c, req)
  \/ \E c \in AuthCallIds : AuthContinue(c)
  \/ \E p \in 1..MaxCalls, outcome \in {"fulfilled", "rejected"} : AuthConstructed(p, outcome)
  \/ \E c \in AuthCallIds : AuthReturn(c)
  \/ AuthReconfigure

AuthNext ==
  \/ \E c \in AuthCallIds, req \in AuthRequests : AuthCall(c, req)
  \/ \E c \in AuthCallIds : AuthContinue(c)
  \/ \E p \in 1..MaxCalls, outcome \in {"fulfilled", "rejected"} : AuthConstructed(p, outcome)
  \/ \E c \in AuthCallIds : AuthReturn(c)
  \/ AuthConfigChange

AuthIdle ==
  /\ aOptions = Undefined
  /\ aCalls = <<>>
  /\ aPromises = <<>>
  /\ aInstances = <<>>

(***************************************************************************)
(* RegistrationOrchestrator: finalizing a pending tenant                   *)
(***************************************************************************)
\* the keys of SETTING_SCHEMAS; one key stands for the table
SettingSchemaKeys == {<<"k", "1">>}

RegThrow(code) == [ok |-> FALSE, error |-> code]
\* a null id
NoId == ""

RECURSIVE normalizeSettings(_)
\* the entries, or the error the first bad entry throws
normalizeSettings(settings) ==
  IF Len(settings) = 0 THEN [ok |-> TRUE, entries |-> <<>>]
  ELSE LET key == Trim(Head(settings).key)
       IN IF Len(key) = 0 THEN RegThrow("bad_request")
          ELSE IF key \notin SettingSchemaKeys THEN RegThrow("bad_request")
          ELSE LET rest == normalizeSettings(Tail(settings))
               IN IF rest.ok
                  THEN [ok |-> TRUE,
                        entries |-> <<[key |-> key, value |-> Head(settings).value]>> \o rest.entries]
                  ELSE rest

\* a mutant: a call that does not ask for the session account is let through
finalizeValidate_SessionAccountOptional(params) ==
  IF params.tenantInput = Undefined THEN RegThrow("bad_request")
  ELSE IF params.sessionUser = Null THEN RegThrow("bad_request")
  ELSE
    LET tenantName == Trim(params.tenantInput.name)
    IN IF Len(tenantName) = 0 THEN RegThrow("bad_request")
       ELSE IF params.sessionUser.id = NoId THEN RegThrow("unauthorized")
       ELSE [ok |-> TRUE, tenantName |-> tenantName]

\* finalizePendingTenant up to its first database call: the error thrown, or ok
finalizeValidate(params) ==
  IF params.tenantInput = Undefined THEN RegThrow("bad_request")
  ELSE IF ~params.useSessionAccount \/ params.sessionUser = Null THEN RegThrow("bad_request")
  ELSE
    LET tenantName == Trim(params.tenantInput.name)
        currentSlug == ToLower(params.tenantContext.tenant.slug)
        requestedSlug ==
          IF ~IsNullish(params.tenantInput.slug) THEN ToLower(Trim(params.tenantInput.slug.s))
          ELSE IF ~IsNullish(params.tenantContext.requestedSlug)
            THEN ToLower(params.tenantContext.requestedSlug.s)
          ELSE currentSlug
    IN IF Len(tenantName) = 0 THEN RegThrow("bad_request")
       ELSE IF Len(requestedSlug) = 0 \/ requestedSlug # currentSlug THEN RegThrow("bad_request")
       ELSE IF params.sessionUser.id = NoId THEN RegThrow("unauthorized")
       ELSE [ok |-> TRUE, tenantName |-> tenantName]

\* registerTenant for a request whose tenant is pending: its own check of the
\* session, then finalizePendingTenant
registerPendingTenant(params) ==
  IF params.useSessionAccount /\ params.sessionUser = Null THEN RegThrow("unauthorized")
  ELSE finalizeValidate(params)

(***************************************************************************)
(* finalizePendingTenant driven by concurrent sign-ups                     *)
(***************************************************************************)
MaxFinalizers == 2
RegCallIds == 1..MaxFinalizers
TenantT1 == "t1"
RegUserIds == {"u1", "u2", "u3"}
NameAcme == <<"A", "c", "m", "e">>

RegSettingsInputs ==
  { <<>>,
    <<[key |-> <<"k", "1">>, value |-> 1]>>,
    <<[key |-> <<"k", "1">>, value |-> 1], [key |-> <<"z", "z">>, value |-> 2]>> }

\* the sign-ups sent to the pending tenant's subdomain by signed-in users
RegInputs ==
  { [tenantInput |-> [name |-> n, slug |-> sl], settings |-> st,
     sessionUser |-> [id |-> u], useSessionAccount |-> TRUE] :
      n \in {NameAcme, <<" ">>}, sl \in {Null, JStr(<<"A", "c">>), JStr(SlugBt)},
      st \in RegSettingsInputs, u \in RegUserIds }

RegInit ==
  /\ rTenant = [id |-> TenantT1, slug |-> SlugAc, name |-> <<>>, status |-> "pending"]
  /\ rUsers = [u \in RegUserIds |->
                 [tenantId |-> IF u = "u2" THEN "t9" ELSE NoId, role |-> "user"]]
  /\ rSettings = <<>>
  /\ rCalls = [c \in RegCallIds |-> [pc |-> "idle"]]

RegDone(c, result) ==
  rCalls' = [rCalls EXCEPT ![c] = [pc |-> "done", params |-> @.params, result |-> result]]
RegGoto(c, pc) ==
  rCalls' = [rCalls EXCEPT ![c].pc = pc]

\* registerTenant finds the request's tenant pending and calls
\* finalizePendingTenant, which checks its input and queries the user
RegCall(c, input) ==
  /\ rCalls[c].pc = "idle"
  /\ c > 1 => rCalls[c - 1].pc # "idle"
  /\ rTenant.status = "pending"
  /\ LET params == [tenantContext |-> [tenant |-> rTenant, requestedSlug |-> JStr(rTenant.slug)],
                    tenantInput |-> input.tenantInput, settings |-> input.settings,
                    sessionUser |-> input.sessionUser,
                    useSessionAccount |-> input.useSessionAccount]
         checked == registerPendingTenant(params)
     IN rCalls' = [rCalls EXCEPT ![c] =
          IF checked.ok
          THEN [pc |-> "select", params |-> params, tenantName |-> checked.tenantName]
          ELSE [pc |-> "done", params |-> params,
                result |-> [success |-> FALSE, error |-> checked.error]]]
  /\ UNCHANGED <<rTenant, rUsers, rSettings, notRegVars>>

\* the user's row has been read
RegSelected(c) ==
  /\ rCalls[c].pc = "select"
  /\ LET existingUser == rUsers[rCalls[c].params.sessionUser.id]
     IN IF existingUser.tenantId # NoId
           /\ existingUser.tenantId # rCalls[c].params.tenantContext.tenant.id
        THEN RegDone(c, [success |-> FALSE, error |-> "bad_request"])
        ELSE RegGoto(c, "updateTenant")
  /\ UNCHANGED <<rTenant, rUsers, rSettings, notRegVars>>

\* where tenants.id = tenantId and tenants.status = 'pending'
tenantRowMatches(row, tenantId) == row.id = tenantId /\ row.status = "pending"

\* the conditional update of the tenant's row, one statement
RegUpdateTenant(c) ==
  /\ rCalls[c].pc = "updateTenant"
  /\ IF tenantRowMatches(rTenant, rCalls[c].params.tenantContext.tenant.id)
     THEN /\ rTenant' = [rTenant EXCEPT !.name = rCalls[c].tenantName, !.status = "active"]
          /\ RegGoto(c, "updateUser")
     ELSE /\ RegDone(c, [success |-> FALSE, error |-> "conflict"])
          /\ UNCHANGED rTenant
  /\ UNCHANGED <<rUsers, rSettings, notRegVars>>

\* the session user becomes the tenant's admin
RegUpdateUser(c) ==
  /\ rCalls[c].pc = "updateUser"
  /\ rUsers' = [rUsers EXCEPT ![rCalls[c].params.sessionUser.id] =
                  [tenantId |-> rTenant.id, role |-> "admin"]]
  /\ RegGoto(c, "settings")
  /\ UNCHANGED <<rTenant, rSettings, notRegVars>>

\* the settings are checked and stored, and the call returns
RegSettings(c) ==
  /\ rCalls[c].pc = "settings"
  /\ LET normalized == normalizeSettings(rCalls[c].params.settings)
     IN IF normalized.ok
        THEN /\ rSettings' = IF Len(normalized.entries) > 0 THEN normalized.entries ELSE rSettings
             /\ RegDone(c, [success |-> TRUE, tenant |-> rTenant.id,
                            accountId |-> rCalls[c].params.sessionUser.id])
        ELSE /\ RegDone(c, [success |-> FALSE, error |-> normalized.error])
             /\ UNCHANGED rSettings
  /\ UNCHANGED <<rTenant, rUsers, notRegVars>>

RegNext ==
  \/ \E c \in RegCallIds, input \in RegInputs : RegCall(c, input)
  \/ \E c \in RegCallIds : RegSelected(c)
  \/ \E c \in RegCallIds : RegUpdateTenant(c)
  \/ \E c \in RegCallIds : RegUpdateUser(c)
  \/ \E c \in RegCallIds : RegSettings(c)

\* sign-ups with and without a session, asking or not for the session account
RegSessionInputs ==
  { [tenantInput |-> [name |-> NameAcme, slug |-> Null], settings |-> <<>>,
     sessionUser |-> su, useSessionAccount |-> b] :
      su \in {Null, [id |-> NoId], [id |-> "u1"], [id |-> "u3"]}, b \in BOOLEAN }

RegSessionNext ==
  \/ \E c \in RegCallIds, input \in RegSessionInputs : RegCall(c, input)
  \/ \E c \in RegCallIds : RegSelected(c)
  \/ \E c \in RegCallIds : RegUpdateTenant(c)
  \/ \E c \in RegCallIds : RegUpdateUser(c)
  \/ \E c \in RegCallIds : RegSettings(c)

NewTenantIdle ==
  /\ nTenants = {}
  /\ nUsers = <<>>
  /\ nCalls = <<>>

CallbackIdle ==
  /\ kChain = [made |-> FALSE]

TxIdle ==
  /\ xPending = <<>>
  /\ xPersisted = <<>>
  /\ xFlush = [active |-> FALSE]
  /\ xRollback = [active |-> FALSE]
  /\ xStore = [writes |-> <<>>, deletes |-> <<>>]
  /\ xHist = [staged |-> 0, flushes |-> 0, rollbacks |-> 0, since |-> {}]

CommentsIdle ==
  /\ mComments = <<>>
  /\ mResp = [op |-> "none"]

NotifyIdle ==
  /\ fUsers = <<>>
  /\ fEvent = <<>>
  /\ fRun = [pc |-> "idle"]

\* no generateUniqueSlug call is modelled
UniqueSlugIdle ==
  /\ uTenants = {}
  /\ uCall = Undefined

RegIdle ==
  /\ rTenant = Undefined
  /\ rUsers = <<>>
  /\ rSettings = <<>>
  /\ rCalls = <<>>
  /\ UniqueSlugIdle
  /\ NewTenantIdle
  /\ CallbackIdle
  /\ TxIdle
  /\ CommentsIdle
  /\ NotifyIdle

(***************************************************************************)
(* generateUniqueSlug: the slug of a new tenant                            *)
(***************************************************************************)
\* the attempts of the loop
SLUG_ATTEMPTS == 50

sanitizedBase(base) == IF Len(base) > 0 THEN base ELSE <<"t", "e", "n", "a", "n", "t">>

\* a mutant: the suffix is the attempt, not the attempt plus one
slugCandidate_SuffixIsAttempt(base, attempt) ==
  IF attempt = 0 THEN sanitizedBase(base)
  ELSE sanitizedBase(base) \o <<"-">> \o NatToStr(attempt)

\* the candidate of an attempt
slugCandidate(base, attempt) ==
  IF attempt = 0 THEN sanitizedBase(base)
  ELSE sanitizedBase(base) \o <<"-">> \o NatToStr(attempt + 1)

\* the slug bases registerNewTenant passes: slugify's results, never empty
SlugBases == {<<"a", "b">>, <<"x">>}
\* the slugs other registrations create and delete meanwhile
SlugsInFlux == {<<"a", "b">>, <<"a", "b", "-", "2">>, <<"x">>}
\* the first n candidates of a base, but the k-th
SlugsTaken(base, n, k) == {slugCandidate(base, i) : i \in (0..(n - 1)) \ {k - 1}}
\* the tenants table when the call is made
SlugStores ==
  UNION { { SlugsTaken(b, 0, 0), SlugsTaken(b, 1, 0), SlugsTaken(b, 2, 0),
            SlugsTaken(b, SLUG_ATTEMPTS, 3), SlugsTaken(b, SLUG_ATTEMPTS, SLUG_ATTEMPTS),
            SlugsTaken(b, SLUG_ATTEMPTS + 1, 0) } : b \in SlugBases }

UniqueSlugInit ==
  /\ uTenants \in SlugStores
  /\ uCall = [pc |-> "idle"]

\* registerNewTenant calls generateUniqueSlug(slugBase)
SlugCall(base) ==
  /\ uCall.pc = "idle"
  /\ uCall' = [pc |-> "loop", base |-> base, attempt |-> 0, seen |-> <<>>]
  /\ UNCHANGED <<uTenants, notSlugVars>>

\* one turn of the loop: findBySlug(candidate) resolves; the candidate is
\* returned, or the next attempt begins, or the attempts are used up
SlugAttempt ==
  /\ uCall.pc = "loop"
  /\ LET candidate == slugCandidate(uCall.base, uCall.attempt)
         existing == candidate \in uTenants
         seen == Append(uCall.seen, existing)
     IN uCall' =
          IF ~existing
          THEN [pc |-> "done", base |-> uCall.base, seen |-> seen,
                result |-> [ok |-> TRUE, slug |-> candidate]]
          ELSE IF uCall.attempt + 1 < SLUG_ATTEMPTS
          THEN [uCall EXCEPT !.attempt = @ + 1, !.seen = seen]
          ELSE [pc |-> "done", base |-> uCall.base, seen |-> seen,
                result |-> RegThrow("bad_request")]
  /\ UNCHANGED <<uTenants, notSlugVars>>

\* another registration creates a tenant
SlugTenantCreated(slug) ==
  /\ slug \notin uTenants
  /\ uTenants' = uTenants \cup {slug}
  /\ UNCHANGED <<uCall, notSlugVars>>

\* another registration fails and deletes the tenant it created
SlugTenantDeleted(slug) ==
  /\ slug \in uTenants
  /\ uTenants' = uTenants \ {slug}
  /\ UNCHANGED <<uCall, notSlugVars>>

UniqueSlugNext ==
  \/ \E base \in SlugBases : SlugCall(base)
  \/ SlugAttempt
  \/ \E slug \in SlugsInFlux : SlugTenantCreated(slug)
  \/ \E slug \in SlugsInFlux : SlugTenantDeleted(slug)

(***************************************************************************)
(* registerNewTenant: a new tenant and its first admin, with rollback      *)
(***************************************************************************)
AlnumChars == LowerChars \cup DigitChars

RECURSIVE DropNonAlnum(_)
DropNonAlnum(s) ==
  IF Len(s) = 0 \/ Head(s) \in AlnumChars THEN s ELSE DropNonAlnum(Tail(s))

RECURSIVE DashRuns(_)
\* replaceAll(/[^a-z0-9]+/g, '-')
DashRuns(s) ==
  IF Len(s) = 0 THEN <<>>
  ELSE IF Head(s) \in AlnumChars THEN <<Head(s)>> \o DashRuns(Tail(s))
  ELSE <<"-">> \o DashRuns(DropNonAlnum(s))

\* replaceAll(/^-+|-+$/g, '')
StripDashes(s) ==
  LET inner == {i \in 1..Len(s) : s[i] # "-"}
  IN IF inner = {} THEN <<>>
     ELSE SubSeq(s, CHOOSE i \in inner : \A j \in inner : i <= j,
                    CHOOSE i \in inner : \A j \in inner : i >= j)

\* slugify, of ASCII text
slugify(value) == StripDashes(DashRuns(ToLower(value)))

\* registerNewTenant (329-337): the slug base, or the error thrown
newTenantSlugBase(tenantInput) ==
  LET tenantName == Trim(tenantInput.name)
      slugBase ==
        IF ~IsNullish(tenantInput.slug) /\ Len(Trim(tenantInput.slug.s)) > 0
        THEN slugify(tenantInput.slug.s)
        ELSE slugify(tenantName)
  IN IF Len(tenantName) = 0 THEN RegThrow("bad_request")
     ELSE IF Len(slugBase) = 0 THEN RegThrow("bad_request")
     ELSE [ok |-> TRUE, tenantName |-> tenantName, slugBase |-> slugBase]

\* a mutant: the store accepts a second tenant with a slug it has
createTenant_NoUniqueSlug(tenants, id, slug) ==
  [ok |-> TRUE, tenants |-> tenants \cup {[id |-> id, slug |-> slug, status |-> "active"]}]

\* tenantService.createTenant: the row is inserted, or the store refuses a
\* slug it already has
createTenant(tenants, id, slug) ==
  IF \E r \in tenants : r.slug = slug THEN [ok |-> FALSE, tenants |-> tenants]
  ELSE [ok |-> TRUE, tenants |-> tenants \cup {[id |-> id, slug |-> slug, status |-> "active"]}]

\* tenantService.deleteTenant: the tenant's row is removed
deleteTenant(tenants, id) == {r \in tenants : r.id # id}

\* tenantService.isPendingTenantId
isPendingTenantId(tenants, id) == \E r \in tenants : r.id = id /\ r.status = "pending"

MaxRegistrations == 2
NewCallIds == 1..MaxRegistrations
\* the ids the store gives the tenants created by the calls, and the identity
\* runtime the users it creates
NewTenantIds == <<"n1", "n2", "n3", "n4">>
NewAccountIds == <<"a1", "a2", "a3", "a4">>
NewSessionUsers == {"u1", "u2"}
NoUser == [tenantId |-> NoId, role |-> "none"]
NoResult == [success |-> FALSE, error |-> "none"]

\* sign-ups for a new tenant: with an account, with the session account, with
\* neither; settings accepted and rejected
NewInput(name, slug, account, sessionUser, settings) ==
  [tenant |-> [name |-> name, slug |-> slug], account |-> account,
   sessionUser |-> sessionUser, useSessionAccount |-> sessionUser # Null,
   settings |-> settings]
NewRejectedSettings == <<[key |-> <<"z", "z">>, value |-> 2]>>
NewInputs ==
  { NewInput(<<"A", "b">>, Null, [email |-> "e"], Null, <<>>),
    NewInput(<<"A", "b">>, JStr(<<"A", " ", "B", "!">>), Null, [id |-> "u1"], NewRejectedSettings),
    NewInput(<<"A", "b">>, Null, Null, [id |-> "u2"], <<>>),
    NewInput(<<"A", "b">>, Null, Null, Null, <<>>),
    NewInput(<<"!">>, Null, [email |-> "e"], Null, <<>>) }

NewTenantInit ==
  /\ nTenants = {[id |-> "t9", slug |-> <<"z">>, status |-> "active"]}
  /\ nUsers = [u \in NewSessionUsers \cup {NewAccountIds[i] : i \in 1..Len(NewAccountIds)} |->
                 IF u = "u1" THEN [tenantId |-> NoId, role |-> "user"]
                 ELSE IF u = "u2" THEN [tenantId |-> "t9", role |-> "user"]
                 ELSE NoUser]
  /\ nCalls = [c \in NewCallIds |-> [pc |-> "idle"]]

NewGoto(c, pc) == nCalls' = [nCalls EXCEPT ![c].pc = pc]
NewDone(c, result) == nCalls' = [nCalls EXCEPT ![c].pc = "done", ![c].result = result]
\* the catch block (423-428): the tenant is deleted when tenantId is set, and
\* the error is thrown on
NewCatch(c, tenantId, error) ==
  nCalls' = [nCalls EXCEPT ![c].pc = IF tenantId # NoId THEN "deleteCaught" ELSE "done",
                           ![c].tenantId = tenantId,
                           ![c].result = [success |-> FALSE, error |-> error]]
\* the sessionUser of registerNewTenant (343)
newSessionUser(input) == IF input.useSessionAccount THEN input.sessionUser ELSE Null

\* registerTenant without a tenant context calls registerNewTenant, which
\* checks the name and the slug base and calls generateUniqueSlug
NewCall(c, input) ==
  /\ nCalls[c].pc = "idle"
  /\ c > 1 => nCalls[c - 1].pc # "idle"
  /\ LET checked == newTenantSlugBase(input.tenant)
     IN nCalls' = [nCalls EXCEPT ![c] =
          [pc |-> IF checked.ok THEN "slug" ELSE "done", input |-> input,
           base |-> IF checked.ok THEN checked.slugBase ELSE <<>>, attempt |-> 0,
           slug |-> <<>>, created |-> NoId, tenantId |-> NoId, userId |-> NoId,
           deleted |-> <<>>,
           result |-> IF checked.ok THEN NoResult
                      ELSE [success |-> FALSE, error |-> checked.error]]]
  /\ UNCHANGED <<nTenants, nUsers, notNewVars>>

\* one turn of generateUniqueSlug's loop; with the slug found, the account
\* check of 343-346
NewSlugAttempt(c) ==
  /\ nCalls[c].pc = "slug"
  /\ LET candidate == slugCandidate(nCalls[c].base, nCalls[c].attempt)
         existing == \E r \in nTenants : r.slug = candidate
         input == nCalls[c].input
     IN IF ~existing
        THEN IF input.account = Null /\ newSessionUser(input) = Null
             THEN NewCatch(c, NoId, "bad_request")
             ELSE nCalls' = [nCalls EXCEPT ![c].pc = "create", ![c].slug = candidate]
        ELSE IF nCalls[c].attempt + 1 < SLUG_ATTEMPTS
        THEN nCalls' = [nCalls EXCEPT ![c].attempt = @ + 1]
        ELSE NewDone(c, [success |-> FALSE, error |-> "bad_request"])
  /\ UNCHANGED <<nTenants, nUsers, notNewVars>>

\* tenantService.createTenant({name, slug})
NewCreate(c) ==
  /\ nCalls[c].pc = "create"
  /\ LET made == createTenant(nTenants, NewTenantIds[c], nCalls[c].slug)
     IN IF made.ok
        THEN /\ nTenants' = made.tenants
             /\ nCalls' = [nCalls EXCEPT ![c].pc = IF nCalls[c].input.account # Null
                                                     THEN "signUp" ELSE "attach",
                                         ![c].created = NewTenantIds[c],
                                         ![c].tenantId = NewTenantIds[c]]
        ELSE /\ NewCatch(c, NoId, "store_error")
             /\ UNCHANGED nTenants
  /\ UNCHANGED <<nUsers, notNewVars>>

NewSignUpOutcomes == {"ok", "not_ok", "no_user_id", "throws"}

\* auth.api.signUpEmail answers (360-389)
NewSignUp(c, outcome) ==
  /\ nCalls[c].pc = "signUp"
  /\ CASE outcome = "ok" ->
            /\ nUsers' = [nUsers EXCEPT ![NewAccountIds[c]] = [tenantId |-> NoId, role |-> "user"]]
            /\ nCalls' = [nCalls EXCEPT ![c].pc = "setAdmin", ![c].userId = NewAccountIds[c]]
       [] outcome = "not_ok" ->
            /\ nCalls' = [nCalls EXCEPT ![c].pc = "deleteReturn",
                                        ![c].result = [success |-> FALSE, error |-> "sign_up_rejected"]]
            /\ UNCHANGED nUsers
       [] outcome = "no_user_id" ->
            /\ nCalls' = [nCalls EXCEPT ![c].pc = "deleteThrow",
                                        ![c].result = [success |-> FALSE, error |-> "bad_request"]]
            /\ UNCHANGED nUsers
       [] outcome = "throws" ->
            /\ NewCatch(c, nCalls[c].tenantId, "sign_up_error")
            /\ UNCHANGED nUsers
  /\ UNCHANGED <<nTenants, notNewVars>>

\* a mutant: tenantId is not cleared after the deletion
afterInlineDelete_KeepsTenantId(tenantId) == tenantId

\* tenantId = null (372, 385)
afterInlineDelete(tenantId) == NoId

\* deleteTenant(tenantId).catch(() => {}) of 371 and 384, then the return, or
\* the throw that the catch block receives
NewDeleteInline(c, fails) ==
  /\ nCalls[c].pc \in {"deleteReturn", "deleteThrow"}
  /\ nTenants' = IF fails THEN nTenants ELSE deleteTenant(nTenants, nCalls[c].tenantId)
  /\ LET tenantId == afterInlineDelete(nCalls[c].tenantId)
     IN nCalls' = [nCalls EXCEPT
          ![c].deleted = Append(@, nCalls[c].tenantId),
          ![c].tenantId = tenantId,
          ![c].pc = IF nCalls[c].pc = "deleteThrow" /\ tenantId # NoId
                    THEN "deleteCaught" ELSE "done"]
  /\ UNCHANGED <<nUsers, notNewVars>>

\* deleteTenant(tenantId).catch(() => {}) of the catch block, then throw error
NewDeleteCaught(c, fails) ==
  /\ nCalls[c].pc = "deleteCaught"
  /\ nTenants' = IF fails THEN nTenants ELSE deleteTenant(nTenants, nCalls[c].tenantId)
  /\ nCalls' = [nCalls EXCEPT ![c].deleted = Append(@, nCalls[c].tenantId), ![c].pc = "done"]
  /\ UNCHANGED <<nUsers, notNewVars>>

\* db.update(authUsers).set({tenantId, role: 'admin'}) (391)
NewSetAdmin(c) ==
  /\ nCalls[c].pc = "setAdmin"
  /\ nUsers' = [nUsers EXCEPT ![nCalls[c].userId] =
                  [tenantId |-> nCalls[c].tenantId, role |-> "admin"]]
  /\ NewGoto(c, "settings")
  /\ UNCHANGED <<nTenants, notNewVars>>

\* attachSessionUserToTenant up to its update (441-466)
NewAttach(c) ==
  /\ nCalls[c].pc = "attach"
  /\ LET sessionUserId == newSessionUser(nCalls[c].input).id
         record == nUsers[sessionUserId]
     IN IF sessionUserId = NoId \/ record = NoUser
        THEN NewCatch(c, nCalls[c].tenantId, "unauthorized")
        ELSE IF record.tenantId # NoId /\ ~isPendingTenantId(nTenants, record.tenantId)
        THEN NewCatch(c, nCalls[c].tenantId, "bad_request")
        ELSE NewGoto(c, "attachUpdate")
  /\ UNCHANGED <<nTenants, nUsers, notNewVars>>

\* the update of attachSessionUserToTenant (468-477)
NewAttachUpdate(c) ==
  /\ nCalls[c].pc = "attachUpdate"
  /\ LET sessionUserId == newSessionUser(nCalls[c].input).id
     IN /\ nUsers' = [nUsers EXCEPT ![sessionUserId] =
                        [tenantId |-> nCalls[c].tenantId, role |-> "admin"]]
        /\ nCalls' = [nCalls EXCEPT ![c].pc = "settings", ![c].userId = sessionUserId]
  /\ UNCHANGED <<nTenants, notNewVars>>

\* normalizeSettings(settings) and settingService.setMany (401-413)
NewSettings(c) ==
  /\ nCalls[c].pc = "settings"
  /\ LET normalized == normalizeSettings(nCalls[c].input.settings)
     IN IF normalized.ok THEN NewGoto(c, "refresh")
        ELSE NewCatch(c, nCalls[c].tenantId, normalized.error)
  /\ UNCHANGED <<nTenants, nUsers, notNewVars>>

\* tenantService.getById(tenantId) and the return (415-422)
NewRefresh(c) ==
  /\ nCalls[c].pc = "refresh"
  /\ IF \E r \in nTenants : r.id = nCalls[c].tenantId
     THEN NewDone(c, [success |-> TRUE, tenant |-> nCalls[c].tenantId,
                      accountId |-> nCalls[c].userId])
     ELSE NewCatch(c, nCalls[c].tenantId, "not_found")
  /\ UNCHANGED <<nTenants, nUsers, notNewVars>>

\* the slugs of first requests to /auth on subdomains without a tenant
NewProvisionedSlugs == {<<"a", "b">>}
\* the resolver provisions a pending tenant: tenantService.ensurePendingTenant
NewProvision(slug) ==
  /\ ~\E r \in nTenants : r.slug = slug
  /\ ~\E r \in nTenants : r.id = "p1"
  /\ nTenants' = nTenants \cup {[id |-> "p1", slug |-> slug, status |-> "pending"]}
  /\ UNCHANGED <<nUsers, nCalls, notNewVars>>

NewTenantNext ==
  \/ \E c \in NewCallIds, input \in NewInputs : NewCall(c, input)
  \/ \E c \in NewCallIds : NewSlugAttempt(c)
  \/ \E c \in NewCallIds : NewCreate(c)
  \/ \E c \in NewCallIds, outcome \in NewSignUpOutcomes : NewSignUp(c, outcome)
  \/ \E c \in NewCallIds, fails \in BOOLEAN : NewDeleteInline(c, fails)
  \/ \E c \in NewCallIds, fails \in BOOLEAN : NewDeleteCaught(c, fails)
  \/ \E c \in NewCallIds : NewSetAdmin(c)
  \/ \E c \in NewCallIds : NewAttach(c)
  \/ \E c \in NewCallIds : NewAttachUpdate(c)
  \/ \E c \in NewCallIds : NewSettings(c)
  \/ \E c \in NewCallIds : NewRefresh(c)
  \/ \E slug \in NewProvisionedSlugs : NewProvision(slug)

(***************************************************************************)
(* TenantContextResolver: the tenant of a request                          *)
(***************************************************************************)
ROOT_TENANT_SLUG == RootSlug
ROOT_TENANT_PATH_PREFIXES ==
  { <<"/", "a", "p", "i", "/", "s", "u", "p", "e", "r", "-", "a", "d", "m", "i", "n">>,
    <<"/", "a", "p", "i", "/", "s", "e", "t", "t", "i", "n", "g", "s">>,
    <<"/", "a", "p", "i", "/", "s", "t", "o", "r", "a", "g", "e", "/",
      "s", "e", "t", "t", "i", "n", "g", "s">>,
    <<"/", "a", "p", "i", "/", "b", "u", "i", "l", "d", "e", "r", "/",
      "s", "e", "t", "t", "i", "n", "g", "s">> }
STR_active == <<"a", "c", "t", "i", "v", "e">>
STR_pending == <<"p", "e", "n", "d", "i", "n", "g">>
PATH_auth == <<"/", "a", "u", "t", "h">>
PATH_apiAuth == <<"/", "a", "p", "i", "/", "a", "u", "t", "h">>
PATH_callbackPrefix == STR_callbackBasePath \o <<"/">>
PATH_session == PATH_auth \o <<"/", "s", "e", "s", "s", "i", "o", "n">>

\* a tenant row and the aggregate around it
TenantRow(id, slug, status) == [id |-> id, slug |-> slug, status |-> status]
TenantContextOf(tenant, isPlaceholder, requestedSlug) ==
  [t |-> "object", tenant |-> tenant, isPlaceholder |-> isPlaceholder,
   requestedSlug |-> requestedSlug]

\* tenant.service: the tenant with this slug, pending ones included, or null
tenantServiceResolve(store, slug) ==
  IF \E r \in store.tenants : r.slug = slug
  THEN LET r == CHOOSE r \in store.tenants : r.slug = slug
       IN TenantContextOf(r, r.status # STR_active, Null)
  ELSE Null

\* a mutant: the tenant found is made pending again
ensurePendingTenant_ResetsStatus(store, slug) ==
  IF \E r \in store.tenants : r.slug = slug
  THEN LET found == CHOOSE r \in store.tenants : r.slug = slug
           reset == [found EXCEPT !.status = STR_pending]
       IN [aggregate |-> [t |-> "object", tenant |-> reset],
           store |-> [store EXCEPT !.tenants = (@ \ {found}) \cup {reset}]]
  ELSE LET r == TenantRow(<<"t", "_">> \o slug, slug, STR_pending)
       IN [aggregate |-> [t |-> "object", tenant |-> r],
           store |-> [store EXCEPT !.tenants = @ \cup {r}]]

\* tenant.service: the tenant with this slug, created pending when there is none
ensurePendingTenant(store, slug) ==
  IF \E r \in store.tenants : r.slug = slug
  THEN [aggregate |-> [t |-> "object", tenant |-> CHOOSE r \in store.tenants : r.slug = slug],
        store |-> store]
  ELSE LET r == TenantRow(<<"t", "_">> \o slug, slug, STR_pending)
       IN [aggregate |-> [t |-> "object", tenant |-> r],
           store |-> [store EXCEPT !.tenants = @ \cup {r}]]

\* tenant.service: the tenant with this id, an exception when there is none
tenantServiceGetById(store, id) ==
  IF \E r \in store.tenants : r.id = id
  THEN [ok |-> TRUE, aggregate |-> [t |-> "object", tenant |-> CHOOSE r \in store.tenants : r.id = id]]
  ELSE [ok |-> FALSE]

\* tenant-domain.service: the tenant owning this verified custom domain, or null
resolveTenantByDomain(store, host) ==
  IF \E d \in store.domains : d.domain = host /\ d.verified
                              /\ \E r \in store.tenants : r.id = d.tenantId
  THEN LET d == CHOOSE d \in store.domains : d.domain = host /\ d.verified
       IN [t |-> "object", tenant |-> CHOOSE r \in store.tenants : r.id = d.tenantId]
  ELSE Null

isTenantSlugReserved(slug) == slug \in ReservedSlugs

\* a mutant: only the prefix itself is a root-tenant path
isRootTenantPath_ExactOnly(path) ==
  Len(path) > 0 /\ ToLower(path) \in ROOT_TENANT_PATH_PREFIXES

isRootTenantPath(path) ==
  IF Len(path) = 0 THEN FALSE
  ELSE LET normalizedPath == ToLower(path)
       IN \E prefix \in ROOT_TENANT_PATH_PREFIXES :
            \/ normalizedPath = prefix
            \/ StartsWith(normalizedPath, ToLower(prefix) \o <<"/">>)

\* a mutant: an attached context is not looked at
getExistingContext_None(attached) == Null

\* HttpContext.getValue('tenant') ?? null
getExistingContext(attached) == Coalesce(attached, Null)

DEFAULT_BASE_DOMAIN == <<"a", "f", "i", "l", "m", "o", "r", "y", ".", "a", "r", "t">>
getBaseDomain(store) ==
  IF store.development THEN STR_localhost
  ELSE IF Len(store.baseDomain) > 0 THEN store.baseDomain ELSE DEFAULT_BASE_DOMAIN

\* new URL(origin).host for an http(s) origin; null when it does not parse
extractHostFromOrigin(origin) ==
  IF ~Truthy(origin) THEN Null
  ELSE LET rest == IF StartsWith(origin.s, STR_https \o <<":", "/", "/">>)
                     THEN SubSeq(origin.s, 9, Len(origin.s))
                   ELSE IF StartsWith(origin.s, STR_http \o <<":", "/", "/">>)
                     THEN SubSeq(origin.s, 8, Len(origin.s))
                   ELSE <<>>
           authority == Split(rest, "/")[1]
       IN IF Len(authority) = 0 THEN Null ELSE JStr(ToLower(authority))

\* value.replace(/^https?:\/\//, '')
stripProtocol(value) ==
  IF StartsWith(value, STR_https \o <<":", "/", "/">>) THEN SubSeq(value, 9, Len(value))
  ELSE IF StartsWith(value, STR_http \o <<":", "/", "/">>) THEN SubSeq(value, 8, Len(value))
  ELSE value

normalizeHost(host, origin) ==
  LET source == Coalesce(host, extractHostFromOrigin(origin))
  IN IF ~Truthy(source) THEN Null
     ELSE LET value == Trim(Split(source.s, ",")[1])
          IN IF Len(value) = 0 THEN Null
             ELSE LET withoutProtocol == stripProtocol(value)
                      hostname == Split(withoutProtocol, "/")[1]
                      hostWithoutPort == Split(hostname, ":")[1]
                      normalized == ToLower(Trim(hostWithoutPort))
                  IN IF Len(normalized) > 0 THEN JStr(normalized) ELSE Null

\* a mutant: a reserved word is provisioned like any other slug
shouldAutoProvisionTenant_ReservedToo(slug, path) ==
  IF ~Truthy(slug) THEN FALSE
  ELSE LET normalizedPath == Trim(path)
       IN IF Len(normalizedPath) = 0 THEN FALSE
          ELSE \/ normalizedPath = PATH_auth \/ normalizedPath = PATH_auth \o <<"/">>
               \/ StartsWith(normalizedPath, PATH_auth \o <<"/">>)
               \/ normalizedPath = PATH_apiAuth \/ normalizedPath = PATH_apiAuth \o <<"/">>
               \/ StartsWith(normalizedPath, PATH_apiAuth \o <<"/">>)

\* a mutant: only the /auth pages provision, the /api/auth endpoints do not
shouldAutoProvisionTenant_PagesOnly(slug, path) ==
  IF ~Truthy(slug) \/ isTenantSlugReserved(slug.s) THEN FALSE
  ELSE LET normalizedPath == Trim(path)
       IN \/ normalizedPath = PATH_auth
          \/ StartsWith(normalizedPath, PATH_auth \o <<"/">>)

shouldAutoProvisionTenant(slug, path) ==
  IF ~Truthy(slug) \/ isTenantSlugReserved(slug.s) THEN FALSE
  ELSE LET normalizedPath == Trim(path)
       IN IF Len(normalizedPath) = 0 THEN FALSE
          ELSE \/ normalizedPath = PATH_auth \/ normalizedPath = PATH_auth \o <<"/">>
               \/ StartsWith(normalizedPath, PATH_auth \o <<"/">>)
               \/ normalizedPath = PATH_apiAuth \/ normalizedPath = PATH_apiAuth \o <<"/">>
               \/ StartsWith(normalizedPath, PATH_apiAuth \o <<"/">>)

\* a mutant: a context is never a placeholder
asTenantContext_NeverPlaceholder(source, requestedSlug) ==
  TenantContextOf(source.tenant, FALSE, requestedSlug)

asTenantContext(source, requestedSlug) ==
  TenantContextOf(source.tenant, source.tenant.status # STR_active, requestedSlug)

\* what resolve() hands back, with the store as it leaves it, the slug it
\* derived and the collaborators it called
ResolveOut(kind, context, derivedSlug, store, calls) ==
  [made |-> TRUE, kind |-> kind, context |-> context, derivedSlug |-> derivedSlug,
   store |-> store, calls |-> calls]

\* a mutant: every source is consulted and the last one to answer wins
slugStillMissing_Always(derivedSlug) == TRUE

\* !derivedSlug: the sources consulted so far have yielded no slug
slugStillMissing(derivedSlug) == ~Truthy(derivedSlug)

\* lines 67-76: a verified custom domain names the tenant
\* [slug, domainMatch, calls]
slugFromDomain(store, host) ==
  LET domainMatch == IF Truthy(host) THEN resolveTenantByDomain(store, host.s) ELSE Null
  IN [slug |-> IF Truthy(domainMatch) THEN JStr(domainMatch.tenant.slug) ELSE Undefined,
      domainMatch |-> domainMatch,
      calls |-> IF Truthy(host) THEN {"resolveTenantByDomain"} ELSE {}]

\* lines 78-80: the host is a subdomain of the base domain
slugFromHost(derived, host, baseDomain) ==
  IF slugStillMissing(derived.slug)
  THEN IF Truthy(host)
       THEN [derived EXCEPT
               !.slug = Coalesce(extractTenantSlugFromHost(host.s, baseDomain), Undefined),
               !.calls = @ \cup {"extractTenantSlugFromHost"}]
       ELSE [derived EXCEPT !.slug = Undefined]
  ELSE derived

\* a || b
JsOr(a, b) == IF Truthy(a) THEN a ELSE b

\* lines 93-96: decoded?.tenantSlug, when there is one
slugOfDecoded(derived, decoded) ==
  [derived EXCEPT
     !.slug = IF Truthy(Field(decoded, K_tenantSlug)) THEN Field(decoded, K_tenantSlug) ELSE @,
     !.calls = @ \cup {"decodeGatewayState"}]

\* a mutant: the signed state is read on every path
slugFromState_AnyPath(derived, req, secret, t) ==
  IF slugStillMissing(derived.slug) /\ Truthy(secret)
  THEN slugOfDecoded(derived,
         JsOr(decodeGatewayState(req.gatewayState,
                                 [secret |-> secret.s, clockToleranceMs |-> Undefined], t),
              decodeGatewayState(req.state,
                                 [secret |-> secret.s, clockToleranceMs |-> Undefined], t)))
  ELSE derived

\* lines 81-97: the signed state of an OAuth callback
slugFromState(derived, req, secret, t) ==
  IF slugStillMissing(derived.slug) /\ Truthy(secret)
     /\ StartsWith(req.path, PATH_callbackPrefix)
  THEN slugOfDecoded(derived,
         JsOr(decodeGatewayState(req.gatewayState,
                                 [secret |-> secret.s, clockToleranceMs |-> Undefined], t),
              decodeGatewayState(req.state,
                                 [secret |-> secret.s, clockToleranceMs |-> Undefined], t)))
  ELSE derived

\* lines 98-100: the path belongs to the root tenant
slugFromPath(derived, path) ==
  IF slugStillMissing(derived.slug)
  THEN [derived EXCEPT !.slug = IF isRootTenantPath(path) THEN JStr(ROOT_TENANT_SLUG) ELSE @,
                       !.calls = @ \cup {"isRootTenantPath"}]
  ELSE derived

\* lines 56-100: the slug, from the first source that yields one
deriveSlug(store, req, secret, t) ==
  LET host == normalizeHost(Coalesce(req.forwardedHost, Coalesce(req.hostHeader, Null)),
                            req.origin)
  IN slugFromPath(
       slugFromState(
         slugFromHost(slugFromDomain(store, host), host, getBaseDomain(store)),
         req, secret, t),
       req.path)

\* a mutant: a caller that demands a tenant gets the error also when no slug
\* was derived
settleContext_ThrowsWithoutSlug(store, req, options, derivedSlug, found, calls) ==
  IF ~Truthy(found) /\ shouldAutoProvisionTenant(derivedSlug, req.path)
  THEN LET pending == ensurePendingTenant(store, derivedSlug.s)
       IN ResolveOut("context", asTenantContext(pending.aggregate, Coalesce(derivedSlug, Null)),
                     derivedSlug, pending.store, calls \cup {"ensurePendingTenant"})
  ELSE IF Truthy(found)
    THEN ResolveOut("context",
                    TenantContextOf(found.tenant, found.tenant.status # STR_active,
                                    Coalesce(Coalesce(derivedSlug, Null),
                                             Coalesce(JStr(found.tenant.slug), Null))),
                    derivedSlug, store, calls)
  ELSE IF options.throwOnMissing
    THEN ResolveOut("TENANT_NOT_FOUND", Null, derivedSlug, store, calls)
  ELSE ResolveOut("none", Null, derivedSlug, store, calls)

\* lines 116-138: provision, refresh or give up
settleContext(store, req, options, derivedSlug, found, calls) ==
  IF ~Truthy(found) /\ shouldAutoProvisionTenant(derivedSlug, req.path)
  THEN LET pending == ensurePendingTenant(store, derivedSlug.s)
       IN ResolveOut("context", asTenantContext(pending.aggregate, Coalesce(derivedSlug, Null)),
                     derivedSlug, pending.store, calls \cup {"ensurePendingTenant"})
  ELSE IF Truthy(found)
    THEN ResolveOut("context",
                    TenantContextOf(found.tenant, found.tenant.status # STR_active,
                                    Coalesce(Coalesce(derivedSlug, Null),
                                             Coalesce(JStr(found.tenant.slug), Null))),
                    derivedSlug, store, calls)
  ELSE IF options.throwOnMissing /\ Truthy(derivedSlug)
    THEN ResolveOut("TENANT_NOT_FOUND", Null, derivedSlug, store, calls)
  ELSE ResolveOut("none", Null, derivedSlug, store, calls)

\* lines 102-114: the tenant of the custom domain, or the one looked up by slug
lookUpContext(store, req, options, derived) ==
  settleContext(store, req, options, derived.slug,
    IF Truthy(derived.domainMatch)
    THEN asTenantContext(derived.domainMatch, JStr(derived.domainMatch.tenant.slug))
    ELSE IF Truthy(derived.slug) THEN tenantServiceResolve(store, derived.slug.s)
    ELSE Null,
    derived.calls
    \cup (IF options.skipInitializationCheck THEN {} ELSE {"isInitialized"})
    \cup (IF ~Truthy(derived.domainMatch) /\ Truthy(derived.slug)
          THEN {"tenantService.resolve"} ELSE {}))

\* TenantContextResolver.resolve(context, options)
resolve(store, attached, req, options, secret, t) ==
  LET existing == getExistingContext(attached)
  IN IF Truthy(existing) THEN ResolveOut("context", existing, Undefined, store, {})
     ELSE IF ~options.skipInitializationCheck /\ ~store.initialized
       THEN ResolveOut("none", Null, Undefined, store, {"isInitialized"})
     ELSE lookUpContext(store, req, options, deriveSlug(store, req, secret, t))

\* tenant.context: the context stands for a tenant that is not active yet
isPlaceholderTenantContext(tenantContext) == tenantContext.isPlaceholder

\* AuthController.getSession: the body of GET /auth/session
getSession(store, attached, auth) ==
  IF ~auth.signedIn THEN Null
  ELSE
    LET tenantContext == Coalesce(attached, Undefined)
        refreshed ==
          IF (~Truthy(tenantContext) \/ isPlaceholderTenantContext(tenantContext))
             /\ Truthy(auth.tenantId)
          THEN LET got == tenantServiceGetById(store, auth.tenantId.s)
               IN IF got.ok
                  THEN LET existingRequestedSlug ==
                             IF Truthy(tenantContext)
                             THEN Coalesce(tenantContext.requestedSlug, Null) ELSE Null
                       IN TenantContextOf(got.aggregate.tenant,
                            got.aggregate.tenant.status # STR_active,
                            Coalesce(existingRequestedSlug,
                                     Coalesce(JStr(got.aggregate.tenant.slug), Null)))
                  ELSE tenantContext
          ELSE tenantContext
    IN IF ~Truthy(refreshed) THEN Null
       ELSE [t |-> "object", user |-> auth.tenantId,
             tenant |-> [isPlaceholder |-> refreshed.isPlaceholder,
                         requestedSlug |-> refreshed.requestedSlug,
                         id |-> refreshed.tenant.id,
                         slug |-> refreshed.tenant.slug,
                         status |-> refreshed.tenant.status]]

(***************************************************************************)
(* resolve() driven over bounded requests and tenant stores                *)
(***************************************************************************)
SlugNw == <<"n", "w">>
IdOf(slug) == <<"t", "_">> \o slug
HostShop == <<"m", "y", ".">> \o BaseDomain
ResSecret == JStr(SecretA)

\* tenant ac exists, pending or active, and owns a verified custom domain, one
\* under the base domain; the root tenant exists or not; the application is initialized or not, in
\* production or in development
ResStores ==
  { [tenants |-> {TenantRow(IdOf(SlugAc), SlugAc, st)} \cup root,
     domains |-> {[domain |-> HostShop, tenantId |-> IdOf(SlugAc), verified |-> TRUE]},
     baseDomain |-> BaseDomain, initialized |-> m[1], development |-> m[2]] :
      st \in {STR_pending, STR_active},
      root \in {{}, {TenantRow(IdOf(RootSlug), RootSlug, STR_active)}},
      m \in {<<TRUE, FALSE>>, <<FALSE, FALSE>>, <<TRUE, TRUE>>} }

ResToken(secret, slug) ==
  JStr(encodeGatewayState([secret |-> secret, tenantSlug |-> slug, innerState |-> JStr(InnerV),
                           targetHost |-> Undefined, ttlMs |-> Undefined], 0))

\* <<x-forwarded-host, host, origin>>
ResHosts ==
  { <<Undefined, JStr(SlugNw \o <<".">> \o BaseDomain), Undefined>>,
    <<Undefined, JStr(SlugAc \o <<".">> \o BaseDomain), Undefined>>,
    <<Undefined, JStr(BaseDomain), Undefined>>,
    <<Undefined, JStr(HostShop), Undefined>>,
    <<Undefined, JStr(<<"w", "w", "w", ".">> \o BaseDomain), Undefined>>,
    <<JStr(<<" ", "N", "W", ".">> \o BaseDomain \o <<":", "4", "4", "3", ",", "p", "x">>),
      JStr(BaseDomain), Undefined>>,
    <<Undefined, Undefined, JStr(STR_https \o <<":", "/", "/">> \o SlugNw \o <<".">> \o BaseDomain)>>,
    <<Undefined, JStr(SlugNw \o <<".">> \o STR_localhost), Undefined>> }

ResPlainPaths ==
  { PATH_auth, PATH_apiAuth \o <<"/", "x">>, <<"/", "A", "u", "t", "h">>,
    <<"/", "a", "p", "i", "/", "s", "e", "t", "t", "i", "n", "g", "s">>,
    <<"/", "a", "p", "i", "/", "S", "e", "t", "t", "i", "n", "g", "s", "/", "x">>,
    <<"/", "a", "p", "i", "/", "s", "e", "t", "t", "i", "n", "g", "s", "x">>,
    <<"/", "p">>, PATH_session }

\* <<gatewayState, state>> of a callback
ResCallbackStates ==
  { <<Undefined, Undefined>>,
    <<Undefined, ResToken(SecretA, JStr(SlugNw))>>,
    <<ResToken(SecretA, JStr(SlugNw)), JStr(InnerV)>>,
    <<Undefined, ResToken(SecretA, Null)>>,
    <<ResToken(SecretB, JStr(SlugNw)), ResToken(SecretA, JStr(SlugAc))>>,
    <<ResToken(SecretA, JStr(<<"w", "w", "w">>)), Undefined>>,
    <<ResToken(SecretA, JStr(SlugNw)), ResToken(SecretA, JStr(SlugAc))>>,
    <<ResToken(SecretB, JStr(SlugNw)), JStr(InnerV)>> }

ResRequests ==
  { [forwardedHost |-> h[1], hostHeader |-> h[2], origin |-> h[3], path |-> p,
     gatewayState |-> Undefined, state |-> Undefined] : h \in ResHosts, p \in ResPlainPaths }
  \cup
  { [forwardedHost |-> h[1], hostHeader |-> h[2], origin |-> h[3],
     path |-> PATH_callbackPrefix \o ProviderGithub,
     gatewayState |-> s[1], state |-> s[2]] : h \in ResHosts, s \in ResCallbackStates }
  \cup
  \* a signed state on a path that is not a callback
  { [forwardedHost |-> Undefined, hostHeader |-> JStr(BaseDomain), origin |-> Undefined,
     path |-> p, gatewayState |-> s[1], state |-> s[2]] :
      p \in {PATH_apiAuth \o <<"/", "x">>, <<"/", "p">>},
      s \in {<<ResToken(SecretA, JStr(SlugNw)), Undefined>>,
              <<Undefined, ResToken(SecretA, JStr(SlugAc))>>} }

ResOptions ==
  { [throwOnMissing |-> FALSE, skipInitializationCheck |-> FALSE],
    [throwOnMissing |-> TRUE, skipInitializationCheck |-> FALSE],
    [throwOnMissing |-> FALSE, skipInitializationCheck |-> TRUE] }

\* the signed-in user of a request: none, one without a tenant, one of tenant
\* ac, one of a tenant that is gone
ResAuths ==
  { [signedIn |-> FALSE, tenantId |-> Null],
    [signedIn |-> TRUE, tenantId |-> Null],
    [signedIn |-> TRUE, tenantId |-> JStr(IdOf(SlugAc))],
    [signedIn |-> TRUE, tenantId |-> JStr(IdOf(<<"z", "z">>))] }

MaxResolves == 2
NoRequest == [made |-> FALSE]
NoOut == [made |-> FALSE]

ResolverInit ==
  /\ tStore \in ResStores
  /\ tReq = NoRequest
  /\ tOut = NoOut

\* a request arrives; nothing is attached to it yet
ResBegin(req, options) ==
  /\ ~tReq.made
  /\ tReq' = [made |-> TRUE, req |-> req, options |-> options, attached |-> Undefined,
              calls |-> 0]
  /\ tOut' = NoOut
  /\ UNCHANGED <<tStore, notResVars>>

\* resolve() is called for the request: by the middleware first, by a guard or
\* a handler afterwards
ResResolve ==
  /\ tReq.made
  /\ tReq.calls < MaxResolves
  /\ LET out == resolve(tStore, tReq.attached, tReq.req, tReq.options, ResSecret, now)
     IN /\ tOut' = [made |-> TRUE, kind |-> out.kind, context |-> out.context,
                    derivedSlug |-> out.derivedSlug, calls |-> out.calls,
                    before |-> tStore, given |-> tReq.attached]
        /\ tStore' = out.store
  /\ tReq' = [tReq EXCEPT !.calls = @ + 1]
  /\ UNCHANGED notResVars

\* RequestContextMiddleware: the resolved context populates HttpContext.tenant
ResAttach ==
  /\ tReq.made
  /\ tOut.made
  /\ tOut.kind = "context"
  /\ tReq.attached = Undefined
  /\ tReq' = [tReq EXCEPT !.attached = tOut.context]
  /\ UNCHANGED <<tStore, tOut, notResVars>>

\* GET /auth/session is answered from the attached context
ResGetSession(auth) ==
  /\ tReq.made
  /\ tOut.made
  /\ tOut.kind \in {"context", "none"}
  /\ tOut.kind = "context" => tReq.attached # Undefined
  /\ tReq.req.path = PATH_session
  /\ tOut' = [made |-> TRUE, kind |-> "session",
              body |-> getSession(tStore, tReq.attached, auth)]
  /\ UNCHANGED <<tStore, tReq, notResVars>>

\* the request is over
ResEnd ==
  /\ tReq.made
  /\ tOut.made
  /\ tReq' = NoRequest
  /\ tOut' = NoOut
  /\ UNCHANGED <<tStore, notResVars>>

\* registration finalizes a pending tenant (finalizePendingTenant's update)
StoreActivate(slug) ==
  /\ \E r \in tStore.tenants : r.slug = slug /\ r.status = STR_pending
  /\ tStore' = [tStore EXCEPT !.tenants =
                  { IF r.slug = slug THEN [r EXCEPT !.status = STR_active] ELSE r : r \in @ }]
  /\ UNCHANGED <<tReq, tOut, notResVars>>

\* resolve() while the tenant table cannot be written: the rejection of
\* ensurePendingTenant (line 118) is awaited outside any try, so it leaves
\* resolve() as it came
rejectProvisioning(store, out) ==
  IF "ensurePendingTenant" \in out.calls
  THEN ResolveOut("DATABASE_ERROR", Null, out.derivedSlug, store, out.calls)
  ELSE out
resolveWhilePersistenceFails(store, attached, req, options, secret, t) ==
  rejectProvisioning(store, resolve(store, attached, req, options, secret, t))

\* the requests of a deployment whose tenant table may fail
ResFaultRequests ==
  { req \in ResRequests :
      /\ req.forwardedHost = Undefined /\ req.origin = Undefined
      /\ req.hostHeader \in {JStr(SlugNw \o <<".">> \o BaseDomain),
                              JStr(SlugAc \o <<".">> \o BaseDomain), JStr(BaseDomain)}
      /\ req.path \in {PATH_auth, <<"/", "p">>, PATH_callbackPrefix \o ProviderGithub} }

\* resolve() is called for the request while writes to the tenant table fail
ResResolveFailing ==
  /\ tReq.made
  /\ tReq.calls < MaxResolves
  /\ LET out == resolveWhilePersistenceFails(tStore, tReq.attached, tReq.req, tReq.options,
                                              ResSecret, now)
     IN tOut' = [made |-> TRUE, kind |-> out.kind, context |-> out.context,
                 derivedSlug |-> out.derivedSlug, calls |-> out.calls,
                 before |-> tStore, given |-> tReq.attached]
  /\ tReq' = [tReq EXCEPT !.calls = @ + 1]
  /\ UNCHANGED <<tStore, notResVars>>

ResolverFaultNext ==
  \/ \E req \in ResFaultRequests, options \in ResOptions : ResBegin(req, options)
  \/ ResResolve
  \/ ResResolveFailing
  \/ ResAttach
  \/ ResEnd

ResolverNext ==
  \/ \E req \in ResRequests, options \in ResOptions : ResBegin(req, options)
  \/ ResResolve
  \/ ResAttach
  \/ \E auth \in ResAuths : ResGetSession(auth)
  \/ ResEnd
  \/ \E slug \in {SlugAc, SlugNw} : StoreActivate(slug)

ResolverIdle ==
  /\ tStore = Undefined
  /\ tReq = NoRequest
  /\ tOut = NoOut

(***************************************************************************)
(* AuthProvider: the databaseHooks of an identity runtime                  *)
(***************************************************************************)
\* tenantContext?.tenant?.id ?? null
resolveTenantIdFromContext(attached) ==
  IF Truthy(attached) THEN JStr(attached.tenant.id) ELSE Null

\* [tenantId, store]; ensurePendingTenant may throw, which gives null
resolveTenantIdOrProvision(store, attached, tenantSlug, provisionThrows) ==
  IF Truthy(resolveTenantIdFromContext(attached))
  THEN [tenantId |-> resolveTenantIdFromContext(attached), store |-> store]
  ELSE IF ~Truthy(tenantSlug) THEN [tenantId |-> Null, store |-> store]
  ELSE IF provisionThrows THEN [tenantId |-> Null, store |-> store]
  ELSE [tenantId |-> JStr(ensurePendingTenant(store, tenantSlug.s).aggregate.tenant.id),
        store |-> ensurePendingTenant(store, tenantSlug.s).store]

HookData(kind, tenantId, ensured) ==
  [ok |-> TRUE, kind |-> kind, tenantId |-> tenantId, store |-> ensured.store]
HookError(kind, ensured) ==
  [ok |-> FALSE, kind |-> kind, error |-> "BAD_REQUEST", store |-> ensured.store]

\* databaseHooks.user.create.before
userCreateBefore(ensured) ==
  IF ~Truthy(ensured.tenantId) THEN HookError("user", ensured)
  ELSE HookData("user", ensured.tenantId, ensured)

\* databaseHooks.session.create.before; ensureTenantId() is awaited only when
\* neither the context nor the session has a tenant id
sessionCreateBefore(store, attached, session, ensured) ==
  IF ~IsNullish(Coalesce(resolveTenantIdFromContext(attached), session.tenantId))
  THEN HookData("session", Coalesce(resolveTenantIdFromContext(attached), session.tenantId),
                [tenantId |-> Null, store |-> store])
  ELSE HookData("session", Coalesce(ensured.tenantId, Null), ensured)

\* databaseHooks.account.create.before
accountCreateBefore(store, attached, account, ensured) ==
  IF ~IsNullish(resolveTenantIdFromContext(attached))
  THEN HookData("account", resolveTenantIdFromContext(attached),
                [tenantId |-> Null, store |-> store])
  ELSE IF ~Truthy(ensured.tenantId) THEN HookData("account", account.tenantId, ensured)
  ELSE HookData("account", ensured.tenantId, ensured)

createBefore(kind, store, attached, record, ensured) ==
  CASE kind = "user" -> userCreateBefore(ensured)
    [] kind = "session" -> sessionCreateBefore(store, attached, record, ensured)
    [] kind = "account" -> accountCreateBefore(store, attached, record, ensured)

(***************************************************************************)
(* Identity rows created through the hooks                                 *)
(***************************************************************************)
MaxRows == 2
HookKinds == {"user", "session", "account"}
\* the context attached to the request in which the runtime creates a row
HookContexts ==
  {Undefined,
   TenantContextOf(TenantRow(IdOf(SlugAc), SlugAc, STR_pending), TRUE, JStr(SlugAc))}
\* the slug the runtime instance was built for
HookSlugs == {Null, JStr(SlugAc), JStr(SlugNw)}
\* the row as the runtime hands it to the hook: tenantId is not an input field
HookRecords == {[tenantId |-> Undefined]}

HooksInit ==
  /\ tStore = [tenants |-> {TenantRow(IdOf(SlugAc), SlugAc, STR_pending)}, domains |-> {},
               baseDomain |-> BaseDomain, initialized |-> TRUE, development |-> FALSE]
  /\ hRows = {}
  /\ hOut = [made |-> FALSE]

\* the runtime creates a row: the hook runs, then the adapter stores what the
\* hook returned
HookCreate(kind, attached, tenantSlug, record, provisionThrows) ==
  /\ Cardinality(hRows) < MaxRows
  /\ LET out == createBefore(kind, tStore, attached, record,
                  resolveTenantIdOrProvision(tStore, attached, tenantSlug, provisionThrows))
     IN /\ hOut' = [made |-> TRUE, ok |-> out.ok, kind |-> kind, attached |-> attached,
                    tenantSlug |-> tenantSlug, provisionThrows |-> provisionThrows]
        /\ hRows' = IF out.ok THEN hRows \cup {[kind |-> kind, tenantId |-> out.tenantId]}
                    ELSE hRows
        /\ tStore' = out.store
  /\ UNCHANGED notHookVars

\* a row is deleted (sign-out, account removal)
HookDelete ==
  /\ \E row \in hRows : hRows' = hRows \ {row}
  /\ hOut' = [made |-> FALSE]
  /\ UNCHANGED <<tStore, notHookVars>>

HooksNext ==
  \/ \E kind \in HookKinds, attached \in HookContexts, tenantSlug \in HookSlugs,
        record \in HookRecords, provisionThrows \in BOOLEAN :
       HookCreate(kind, attached, tenantSlug, record, provisionThrows)
  \/ HookDelete

\* the operations that read and write the tenants' status together: requests
\* resolved, rows created through the hooks, and pending tenants made active
TenantStatusRequests == {req \in ResFaultRequests : req.path = PATH_auth}
TenantStatusNext ==
  \/ \E req \in TenantStatusRequests, options \in ResOptions : ResBegin(req, options)
  \/ ResResolve
  \/ ResEnd
  \/ \E tenantSlug \in HookSlugs, provisionThrows \in BOOLEAN :
       HookCreate("user", Undefined, tenantSlug, [tenantId |-> Undefined], provisionThrows)
  \/ \E slug \in {SlugAc, SlugNw} : StoreActivate(slug)

HooksIdle ==
  /\ hRows = {}
  /\ hOut = [made |-> FALSE]

(***************************************************************************)
(* A social sign-in from the tenant host to the provider, the gateway and  *)
(* back                                                                    *)
(***************************************************************************)
wrapGatewayState_SlugOnly(secret, url, tenantSlug, t) ==
  IF ~Truthy(secret) THEN url
  ELSE IF ~Truthy(ParamGet(url, "state")) THEN url
  ELSE ParamSet(url, "state",
         JStr(encodeGatewayState([secret |-> secret.s, tenantSlug |-> tenantSlug,
                                  innerState |-> JStr(<<>>),
                                  targetHost |-> Undefined, ttlMs |-> Undefined], t)))

\* AuthController.wrapGatewayState: the state of the provider URL wrapped with
\* the tenant slug (the URL is its query)
wrapGatewayState(secret, url, tenantSlug, t) ==
  IF ~Truthy(secret) THEN url
  ELSE IF ~Truthy(ParamGet(url, "state")) THEN url
  ELSE ParamSet(url, "state",
         JStr(encodeGatewayState([secret |-> secret.s, tenantSlug |-> tenantSlug,
                                  innerState |-> ParamGet(url, "state"),
                                  targetHost |-> Undefined, ttlMs |-> Undefined], t)))

\* handleSocialSignIn 352: tenantContext?.requestedSlug ?? tenantContext?.tenant?.slug ?? null
signInTenantSlug(attached) ==
  IF Truthy(attached)
  THEN Coalesce(attached.requestedSlug, Coalesce(JStr(attached.tenant.slug), Null))
  ELSE Null

\* what getAuth() reads of a request: its headers and the attached context
FlowAuthReq(req, forwardedProto, attached) ==
  [forwardedHost |-> req.forwardedHost, hostHeader |-> req.hostHeader,
   forwardedProto |-> forwardedProto,
   requestedSlug |-> IF Truthy(attached) THEN attached.requestedSlug ELSE Undefined,
   tenantSlug |-> IF Truthy(attached) THEN JStr(attached.tenant.slug) ELSE Undefined,
   isPlaceholder |-> IF Truthy(attached) THEN attached.isPlaceholder ELSE FALSE]

\* RequestContextMiddleware: the context resolve() gives is attached
middlewareResolve(store, req, t) ==
  resolve(store, Undefined, req,
          [throwOnMissing |-> FALSE, skipInitializationCheck |-> FALSE], ResSecret, t)
attachedOf(out) == IF out.kind = "context" THEN out.context ELSE Undefined

FlowRequest(host, path, gatewayState, state) ==
  [forwardedHost |-> Undefined, hostHeader |-> JStr(host), origin |-> Undefined,
   path |-> path, gatewayState |-> gatewayState, state |-> state]

PATH_social == PATH_auth \o <<"/", "s", "o", "c", "i", "a", "l">>
FlowSlugs == {SlugAc, SlugNw}
FlowProtos == {Undefined, JStr(STR_http), JStr(STR_https)}
\* the state of the provider URL the runtime answers with: none, empty, a value
FlowStates == {Undefined, JStr(<<>>), JStr(InnerV)}
NoFlow == [made |-> FALSE]
EmptyQuery ==
  [state |-> Undefined, gatewayState |-> Undefined, tenantSlug |-> Undefined,
   tenant |-> Undefined, targetHost |-> Undefined, code |-> Undefined]

FlowInit ==
  /\ now = 0
  /\ ticks = 0
  /\ tStore \in { st \in ResStores :
                    ~st.development /\ \A r \in st.tenants : r.slug # RootSlug }
  /\ gwConfig \in GwConfigs
  /\ gwIssued = [made |-> FALSE]
  /\ gwReq = [made |-> FALSE]
  /\ gwResp = [made |-> FALSE]
  /\ gwSeen = [made |-> FALSE]
  /\ oFlow = NoFlow

\* POST /auth/social on the tenant host: the middleware resolves the tenant and
\* gets the runtime, the runtime answers with the provider URL, the controller
\* wraps its state
FlowSignIn(slug, forwardedProto, state) ==
  /\ ~oFlow.made
  /\ LET req == FlowRequest(slug \o <<".">> \o BaseDomain, PATH_social, Undefined, Undefined)
         out == middlewareResolve(tStore, req, now)
         key == cacheKeyParts(FlowAuthReq(req, forwardedProto, attachedOf(out)),
                              OptionsV1).cacheKey
     IN /\ oFlow' = [made |-> TRUE, slug |-> slug, at |-> now, state |-> state,
                     forwardedProto |-> forwardedProto,
                     context |-> attachedOf(out),
                     key |-> key,
                     instances |-> (key :> 1),
                     url |-> wrapGatewayState(ResSecret, ParamSet(EmptyQuery, "state", state),
                                              signInTenantSlug(attachedOf(out)), now),
                     landed |-> [made |-> FALSE]]
        /\ tStore' = out.store
  /\ UNCHANGED <<now, ticks, codecVars, gwVars, authVars, regVars, slugVars, tReq, tOut, hookVars, newVars, cbVars, txVars, cmVars, nfVars>>

\* the provider sends the browser to the gateway with the state it was given
FlowProviderReturn ==
  /\ oFlow.made
  /\ ~oFlow.landed.made
  /\ GwHandle(ProviderGithub,
              [EmptyQuery EXCEPT !["state"] = oFlow.url["state"], !["code"] = JStr(CodeXyz)])

\* the browser follows the gateway's redirect: the middleware of the core
\* resolves the tenant and gets the runtime for the callback
FlowLand(forwardedProto) ==
  /\ oFlow.made
  /\ ~oFlow.landed.made
  /\ gwResp.made
  /\ gwResp.status = 302
  /\ forwardedProto \in {Undefined, JStr(gwResp.location.protocol)}
  /\ LET req == FlowRequest(gwResp.location.host, gwResp.location.path,
                            gwResp.location.query["gatewayState"],
                            gwResp.location.query["state"])
         out == middlewareResolve(tStore, req, now)
         key == cacheKeyParts(FlowAuthReq(req, forwardedProto, attachedOf(out)),
                              OptionsV1).cacheKey
     IN /\ oFlow' = [oFlow EXCEPT !.landed =
                       [made |-> TRUE, host |-> gwResp.location.host,
                        forwardedProto |-> forwardedProto,
                        context |-> attachedOf(out), key |-> key,
                        instance |-> IF cacheMiss(oFlow.instances, key) THEN 2
                                     ELSE oFlow.instances[key],
                        state |-> gwResp.location.query["state"]]]
        /\ tStore' = out.store
  /\ UNCHANGED <<now, ticks, codecVars, gwVars, authVars, regVars, slugVars, tReq, tOut, hookVars, newVars, cbVars, txVars, cmVars, nfVars>>

FlowNext ==
  \/ \E slug \in FlowSlugs, forwardedProto \in FlowProtos, state \in FlowStates :
       FlowSignIn(slug, forwardedProto, state)
  \/ FlowProviderReturn
  \/ \E forwardedProto \in FlowProtos : FlowLand(forwardedProto)
  \/ \E slug \in FlowSlugs : StoreActivate(slug)
  \/ GwTick

FlowIdle == oFlow = NoFlow

GatewayIdle ==
  /\ gwConfig = [set |-> FALSE]
  /\ gwIssued = [made |-> FALSE]
  /\ gwReq = [made |-> FALSE]
  /\ gwResp = [made |-> FALSE]
  /\ gwSeen = [made |-> FALSE]

CodecIdle ==
  /\ cToken = Undefined
  /\ cEnc = NoEnc
  /\ cTamper = "none"
  /\ cDec = NoDec

(***************************************************************************)
(* AuthController.callback: the redirects of /auth/callback/*              *)
(***************************************************************************)
\* the wrapped state decoded, when a secret is configured
callbackDecoded(req, secret, t) ==
  IF Truthy(secret) /\ Truthy(ParamGet(req.query, "state"))
  THEN decodeGatewayState(ParamGet(req.query, "state"),
                          [secret |-> secret.s, clockToleranceMs |-> Undefined], t)
  ELSE Null

\* a mutant: the state is left wrapped in the redirect
callbackRestoreState_KeepsWrapped(query, decoded) ==
  IF Truthy(Field(decoded, K_innerState))
  THEN ParamSet(query, "gatewayState", ParamGet(query, "state"))
  ELSE query

\* auth.controller.ts 445-446: the inner state restored, the wrapped one kept
callbackRestoreState(query, decoded) ==
  IF Truthy(Field(decoded, K_innerState))
  THEN ParamSet(ParamSet(query, "gatewayState", ParamGet(query, "state")),
                "state", Field(decoded, K_innerState))
  ELSE query

\* auth.controller.ts 452-458: the host prefixed with the slug of the state
callbackHostOfState(host, decoded) ==
  LET tenantSlugFromState ==
        IF Truthy(Field(decoded, K_innerState))
        THEN Coalesce(Field(decoded, K_tenantSlug), Null) ELSE Null
  IN IF Truthy(tenantSlugFromState) /\ ~StartsWith(host, tenantSlugFromState.s \o <<".">>)
     THEN tenantSlugFromState.s \o <<".">> \o host
     ELSE host

\* the handler, given the decoded state: a redirect, or the identity runtime
callbackRespond(req, decoded) ==
  LET query == callbackRestoreState(req.query, decoded)
      host == callbackHostOfState(req.host, decoded)
      didRewriteState == ParamGet(query, "state") # ParamGet(req.query, "state")
      didRewriteHost == host # req.host
      tenantSlug == ParamGet(query, "tenantSlug")
  IN IF Truthy(tenantSlug)
     THEN [kind |-> "redirect",
           req |-> [host |-> tenantSlug.s \o <<".">> \o host,
                    query |-> ParamDelete(query, "tenantSlug")]]
     ELSE IF didRewriteState \/ didRewriteHost
     THEN [kind |-> "redirect", req |-> [host |-> host, query |-> query]]
     ELSE [kind |-> "handled", req |-> req]

\* AuthController.callback
callback(req, secret, t) == callbackRespond(req, callbackDecoded(req, secret, t))

MaxHops == 3
CbToken(secret, slug, inner) ==
  JStr(encodeGatewayState([secret |-> secret, tenantSlug |-> slug, innerState |-> JStr(inner),
                           targetHost |-> Undefined, ttlMs |-> Undefined], 0))
\* the state of a callback: none, the runtime's own, wrapped for a tenant,
\* wrapped without a tenant, wrapped around an empty state, signed by another
\* secret
CbStates ==
  { Undefined, JStr(InnerV), CbToken(SecretA, JStr(SlugAc), InnerV),
    CbToken(SecretA, Null, InnerV), CbToken(SecretA, JStr(SlugAc), <<>>),
    CbToken(SecretB, JStr(SlugAc), InnerV) }
CbRequests ==
  { [host |-> h, query |-> [EmptyQuery EXCEPT !.state = st, !.tenantSlug = sl,
                                             !.code = JStr(CodeXyz)]] :
      h \in {BaseDomain, SlugAc \o <<".">> \o BaseDomain}, st \in CbStates,
      sl \in {Undefined, JStr(<<>>), JStr(SlugBt)} }

CbTimes == {0, DEFAULT_TTL_MS + DEFAULT_CLOCK_TOLERANCE_MS + 1}
CbSecrets == {Null, JStr(SecretA)}
\* the handler's answers to these requests, under each secret and at each time
CbAnswersTo(reqs) ==
  {<<a, callback(a[1], a[2], a[3])>> : a \in reqs \X CbSecrets \X CbTimes}
\* the answers, and the answers to the requests they redirect to, n times over
RECURSIVE CbFollowed(_, _)
CbFollowed(answers, n) ==
  IF n = 0 THEN answers
  ELSE CbFollowed(answers \cup CbAnswersTo({p[2].req : p \in answers} \ {p[1][1] : p \in answers}),
                  n - 1)
\* the handler's answers, computed once for each request a chain can hold
CbAnswers == CbFollowed(CbAnswersTo(CbRequests), MaxHops)
callbackAnswer(req, secret, t) ==
  (CHOOSE p \in CbAnswers : p[1] = <<req, secret, t>>)[2]

CallbackInit ==
  /\ now = 0
  /\ ticks = 0
  /\ kChain = [made |-> FALSE]

\* the provider, or the gateway, sends the browser to /auth/callback/*
CbArrive(req, secret) ==
  /\ ~kChain.made
  /\ kChain' = [made |-> TRUE, first |-> req, secret |-> secret, req |-> req, hops |-> 0,
                handled |-> FALSE]
  /\ UNCHANGED <<now, ticks, notCbVars>>

\* the request at hand is answered; the browser follows a redirect
CbFollow ==
  /\ kChain.made
  /\ ~kChain.handled
  /\ kChain.hops < MaxHops
  /\ LET out == callbackAnswer(kChain.req, kChain.secret, now)
     IN kChain' = IF out.kind = "redirect"
                  THEN [kChain EXCEPT !.req = out.req, !.hops = @ + 1]
                  ELSE [kChain EXCEPT !.handled = TRUE]
  /\ UNCHANGED <<now, ticks, notCbVars>>

\* time passes, past the life of a state issued at the start
CbTick ==
  /\ now = 0
  /\ Tick(DEFAULT_TTL_MS + DEFAULT_CLOCK_TOLERANCE_MS + 1)
  /\ UNCHANGED <<kChain, codecVars, gwVars, authVars, regVars, slugVars, resVars, hookVars,
                 oFlow, newVars, txVars, cmVars, nfVars>>

CallbackNext ==
  \/ \E req \in CbRequests, secret \in CbSecrets : CbArrive(req, secret)
  \/ CbFollow
  \/ CbTick

vars == <<now, ticks, codecVars, gwVars, authVars, regVars, slugVars, resVars, hookVars, oFlow, newVars, cbVars, txVars, cmVars, nfVars>>

CodecStart == CodecInit /\ GatewayIdle /\ AuthIdle /\ RegIdle /\ ResolverIdle /\ HooksIdle /\ FlowIdle

SpecCodec ==
  /\ CodecStart
  /\ [][CodecNext]_vars

GatewayStart == GatewayInit /\ CodecIdle /\ AuthIdle /\ RegIdle /\ ResolverIdle /\ HooksIdle /\ FlowIdle

SpecGateway ==
  /\ GatewayStart
  /\ [][GatewayNext]_vars

SpecGatewayPair ==
  /\ GatewayStart
  /\ [][GatewayPairNext]_vars

ResolverStart ==
  /\ ResolverInit /\ now = 0 /\ ticks = 0
  /\ CodecIdle /\ GatewayIdle /\ AuthIdle /\ RegIdle /\ HooksIdle /\ FlowIdle

HooksStart ==
  /\ HooksInit /\ tReq = NoRequest /\ tOut = NoOut /\ now = 0 /\ ticks = 0
  /\ CodecIdle /\ GatewayIdle /\ AuthIdle /\ RegIdle /\ FlowIdle

FlowStart ==
  /\ FlowInit /\ tReq = NoRequest /\ tOut = NoOut
  /\ CodecIdle /\ AuthIdle /\ RegIdle /\ HooksIdle

SpecFlow ==
  /\ FlowStart
  /\ [][FlowNext]_vars

SpecHooks ==
  /\ HooksStart
  /\ [][HooksNext]_vars

SpecTenantStatus ==
  /\ HooksStart
  /\ [][TenantStatusNext]_vars

SpecResolver ==
  /\ ResolverStart
  /\ [][ResolverNext]_vars

SpecResolverFault ==
  /\ ResolverStart
  /\ [][ResolverFaultNext]_vars

AuthStart ==
  AuthInit /\ now = 0 /\ ticks = 0 /\ CodecIdle /\ GatewayIdle /\ RegIdle /\ ResolverIdle /\ HooksIdle /\ FlowIdle

SpecAuth ==
  /\ AuthStart
  /\ [][AuthNext]_vars

SpecAuthTurns ==
  /\ AuthStart
  /\ [][AuthTurnsNext]_vars

RegStart ==
  RegInit /\ UniqueSlugIdle /\ now = 0 /\ ticks = 0 /\ CodecIdle /\ GatewayIdle /\ AuthIdle /\ ResolverIdle /\ HooksIdle /\ FlowIdle /\ NewTenantIdle /\ CallbackIdle /\ TxIdle /\ CommentsIdle /\ NotifyIdle

SpecReg ==
  /\ RegStart
  /\ [][RegNext]_vars

SpecRegSession ==
  /\ RegStart
  /\ [][RegSessionNext]_vars

UniqueSlugStart ==
  /\ UniqueSlugInit
  /\ rTenant = Undefined /\ rUsers = <<>> /\ rSettings = <<>> /\ rCalls = <<>>
  /\ now = 0 /\ ticks = 0
  /\ CodecIdle /\ GatewayIdle /\ AuthIdle /\ ResolverIdle /\ HooksIdle /\ FlowIdle /\ NewTenantIdle /\ CallbackIdle /\ TxIdle /\ CommentsIdle /\ NotifyIdle

\* the registration rows of the finalization, none
RegRowsIdle == rTenant = Undefined /\ rUsers = <<>> /\ rSettings = <<>> /\ rCalls = <<>>

NewTenantStart ==
  /\ NewTenantInit /\ RegRowsIdle /\ UniqueSlugIdle /\ now = 0 /\ ticks = 0
  /\ CodecIdle /\ GatewayIdle /\ AuthIdle /\ ResolverIdle /\ HooksIdle /\ FlowIdle /\ CallbackIdle /\ TxIdle /\ CommentsIdle /\ NotifyIdle

SpecNewTenant ==
  /\ NewTenantStart
  /\ [][NewTenantNext]_vars

(***************************************************************************)
(* TransactionalStorageManager: uploads staged, flushed and rolled back    *)
(***************************************************************************)
MaxStaged == 3
MaxFlushes == 2
MaxRollbacks == 2
TxKeys == {"k1", "k2"}

\* part_003 42-44
hasPendingUploads(pendingUploads) == Len(pendingUploads) > 0

\* part_003 54-63: this.pendingUploads.push({ key, data, options, placeholder })
stageUpload(pendingUploads, entry) == Append(pendingUploads, entry)

\* part_003 108: Map.set keeps the place of a key it already holds
persistedSet(persistedUploads, key) ==
  IF \E i \in 1..Len(persistedUploads) : persistedUploads[i] = key
  THEN persistedUploads
  ELSE Append(persistedUploads, key)

\* a mutant: the keys are kept after a rollback has taken them
persistedAfterRollback_Keeps(persistedUploads) == persistedUploads

\* part_003 119: this.persistedUploads.clear()
persistedAfterRollback(persistedUploads) == <<>>

\* a mutant: the batch stays pending while it is written
pendingAfterTake_Keeps(pendingUploads) == pendingUploads

\* part_003 75: this.pendingUploads = []
pendingAfterTake(pendingUploads) == <<>>

TxNoFlush ==
  [active |-> FALSE, uploads |-> <<>>, index |-> 0, outcome |-> "none", mark |-> 0]
TxNoRollback ==
  [active |-> FALSE, keys |-> <<>>, index |-> 0, outcome |-> "none", expected |-> {},
   attempts |-> <<>>, mark |-> 0]

TxInit ==
  /\ xPending = <<>>
  /\ xPersisted = <<>>
  /\ xFlush = TxNoFlush
  /\ xRollback = TxNoRollback
  /\ xStore = [writes |-> <<>>, deletes |-> <<>>]
  /\ xHist = [staged |-> 0, flushes |-> 0, rollbacks |-> 0, since |-> {}, last |-> "none"]

\* stageUpload, and uploadFile, which only calls it: the storage is not touched
TxStage(key) ==
  /\ xHist.staged < MaxStaged
  /\ xPending' = stageUpload(xPending, [id |-> xHist.staged + 1, key |-> key])
  /\ xHist' = [xHist EXCEPT !.staged = @ + 1, !.last = "stage"]
  /\ UNCHANGED <<xPersisted, xFlush, xRollback, xStore, notTxVars>>

\* flushUploads up to its first await: nothing pending, or the batch is taken
\* and the write of its first entry is asked of the storage
TxFlushBegin ==
  /\ ~xFlush.active
  /\ xHist.flushes < MaxFlushes
  /\ IF ~hasPendingUploads(xPending)
     THEN /\ xFlush' = [TxNoFlush EXCEPT !.outcome = "completed", !.mark = xHist.staged]
          /\ xPending' = xPending
     ELSE /\ xFlush' = [TxNoFlush EXCEPT !.active = TRUE, !.uploads = xPending, !.index = 1,
                                         !.outcome = "running", !.mark = xHist.staged]
          /\ xPending' = pendingAfterTake(xPending)
  /\ xHist' = [xHist EXCEPT !.flushes = @ + 1, !.last = "flush"]
  /\ UNCHANGED <<xPersisted, xRollback, xStore, notTxVars>>

\* super.uploadFile settles: the entry is written and recorded and the loop
\* goes on to the next entry or returns, or the write fails and the flush
\* rejects with the rest of its batch unwritten
TxFlushWrite(ok) ==
  /\ xFlush.active
  /\ LET entry == xFlush.uploads[xFlush.index]
     IN IF ok
        THEN /\ xStore' = [xStore EXCEPT !.writes = Append(@, entry)]
             /\ xPersisted' = persistedSet(xPersisted, entry.key)
             /\ xHist' = [xHist EXCEPT !.since = @ \cup {entry.key}, !.last = "write"]
             /\ xFlush' = IF xFlush.index < Len(xFlush.uploads)
                          THEN [xFlush EXCEPT !.index = @ + 1]
                          ELSE [xFlush EXCEPT !.active = FALSE, !.outcome = "completed"]
        ELSE /\ xFlush' = [xFlush EXCEPT !.active = FALSE, !.outcome = "failed"]
             /\ xHist' = [xHist EXCEPT !.last = "write"]
             /\ UNCHANGED <<xStore, xPersisted>>
  /\ UNCHANGED <<xPending, xRollback, notTxVars>>

\* rollbackUploads up to its first await: the pending uploads are dropped, the
\* persisted keys are taken and the deletion of the first is asked
TxRollbackBegin ==
  /\ ~xRollback.active
  /\ xHist.rollbacks < MaxRollbacks
  /\ xPending' = <<>>
  /\ xPersisted' = persistedAfterRollback(xPersisted)
  /\ xRollback' = [TxNoRollback EXCEPT !.active = Len(xPersisted) > 0, !.keys = xPersisted,
                                       !.index = IF Len(xPersisted) > 0 THEN 1 ELSE 0,
                                       !.outcome = IF Len(xPersisted) > 0 THEN "running"
                                                   ELSE "completed",
                                       !.expected = xHist.since, !.mark = xHist.staged]
  /\ xHist' = [xHist EXCEPT !.rollbacks = @ + 1, !.since = {}, !.last = "rollback"]
  /\ UNCHANGED <<xFlush, xStore, notTxVars>>

\* super.deleteFile settles: whether it deleted or threw, the loop goes on
TxRollbackDelete(ok) ==
  /\ xRollback.active
  /\ LET key == xRollback.keys[xRollback.index]
     IN /\ xStore' = [xStore EXCEPT !.deletes = Append(@, [key |-> key, ok |-> ok])]
        /\ xRollback' =
             IF xRollback.index < Len(xRollback.keys)
             THEN [xRollback EXCEPT !.index = @ + 1, !.attempts = Append(@, key)]
             ELSE [xRollback EXCEPT !.active = FALSE, !.outcome = "completed",
                                    !.attempts = Append(@, key)]
  /\ xHist' = [xHist EXCEPT !.last = IF xRollback.index < Len(xRollback.keys)
                                      THEN "delete" ELSE "rollback"]
  /\ UNCHANGED <<xPending, xPersisted, xFlush, notTxVars>>

StorageNext ==
  \/ \E key \in TxKeys : TxStage(key)
  \/ TxFlushBegin
  \/ \E ok \in BOOLEAN : TxFlushWrite(ok)
  \/ TxRollbackBegin
  \/ \E ok \in BOOLEAN : TxRollbackDelete(ok)

StorageStart ==
  /\ TxInit /\ RegRowsIdle /\ UniqueSlugIdle /\ CallbackIdle /\ now = 0 /\ ticks = 0
  /\ CodecIdle /\ GatewayIdle /\ AuthIdle /\ ResolverIdle /\ HooksIdle /\ FlowIdle /\ NewTenantIdle /\ CommentsIdle /\ NotifyIdle

SpecStorage == StorageStart /\ [][StorageNext]_vars

(***************************************************************************)
(* CommentService: comments created, listed, counted and soft-deleted      *)
(***************************************************************************)
MaxComments == 2
CmTenant == "t1"
CmPhotos == {"p1", "p2"}
CmAnonymous == [signedIn |-> FALSE, id |-> "none", role |-> "none"]
CmAuthors ==
  { [signedIn |-> TRUE, id |-> "u1", role |-> "user"],
    [signedIn |-> TRUE, id |-> "u2", role |-> "user"] }
CmViewers ==
  CmAuthors \cup
  { CmAnonymous,
    [signedIn |-> TRUE, id |-> "ad", role |-> "admin"],
    [signedIn |-> TRUE, id |-> "su", role |-> "superadmin"] }
CmNoParent == 0

CmError(op, code) == [op |-> op, ok |-> FALSE, error |-> code]

\* the comment of that id in the tenant, as a set of at most one row
CmRowsById(store, id) ==
  {store[i] : i \in {j \in 1..Len(store) : store[j].id = id /\ store[j].tenantId = CmTenant}}

\* comment-created.event.ts 973
cmIsAdmin(authUser) == authUser.role = "admin" \/ authUser.role = "superadmin"

\* comment-created.event.ts 982-992 (and 1305-1315): the statuses a viewer is
\* shown
statusCondition(c, authUser) ==
  IF cmIsAdmin(authUser) THEN c.status \in {"approved", "pending"}
  ELSE IF authUser.signedIn
  THEN c.status = "approved" \/ (c.status = "pending" /\ c.userId = authUser.id)
  ELSE c.status = "approved"

\* comment-created.event.ts 976-980, 993
cmFilters(c, photoId, authUser) ==
  /\ c.tenantId = CmTenant
  /\ c.photoId = photoId
  /\ ~c.deletedAt
  /\ statusCondition(c, authUser)

\* comment-created.event.ts 1055-1057: the where clause of the parents' query
cmParentFilter(c, parentIds) ==
  c.tenantId = CmTenant /\ c.id \in parentIds /\ ~c.deletedAt

\* the first n rows
CmTake(rows, n) == SubSeq(rows, 1, IF Len(rows) < n THEN Len(rows) ELSE n)

\* comment-created.event.ts 963-1087, for a cursor that was found or not given
cmListFrom(store, query, authUser, anchorId) ==
  LET rows == CmTake(SelectSeq(store, LAMBDA c : cmFilters(c, query.photoId, authUser)
                                                  /\ c.id > anchorId),
                     query.limit + 1)
      hasMore == Len(rows) > query.limit
      items == CmTake(rows, query.limit)
      parentIds == {items[i].parentId : i \in 1..Len(items)} \ {CmNoParent}
      relations == {store[i] : i \in {j \in 1..Len(store) : cmParentFilter(store[j], parentIds)}}
  IN [op |-> "list", ok |-> TRUE, viewer |-> authUser, photoId |-> query.photoId,
      comments |-> items, relations |-> relations,
      users |-> {items[i].userId : i \in 1..Len(items)} \cup {r.userId : r \in relations},
      nextCursor |-> IF hasMore /\ Len(items) > 0 THEN items[Len(items)].id ELSE CmNoParent]

\* CommentService.listComments
listComments(store, query, authUser) ==
  IF query.cursor = CmNoParent THEN cmListFrom(store, query, authUser, 0)
  ELSE IF \E c \in CmRowsById(store, query.cursor) : c.photoId = query.photoId
  THEN cmListFrom(store, query, authUser, query.cursor)
  ELSE CmError("list", "COMMON_NOT_FOUND")

\* CommentService.getCommentCount
getCommentCount(store, photoId, authUser) ==
  [op |-> "count", ok |-> TRUE, viewer |-> authUser, photoId |-> photoId,
   count |-> Len(SelectSeq(store, LAMBDA c : cmFilters(c, photoId, authUser)))]

\* comment-created.event.ts 1344-1371: the error of validateParent, or none
validateParent(store, parentId, photoId) ==
  IF parentId = CmNoParent THEN "none"
  ELSE IF CmRowsById(store, parentId) = {} THEN "COMMON_NOT_FOUND"
  ELSE LET parent == CHOOSE c \in CmRowsById(store, parentId) : TRUE
       IN IF parent.photoId # photoId THEN "COMMON_BAD_REQUEST"
          ELSE IF parent.status = "hidden" \/ parent.status = "rejected" \/ parent.deletedAt
          THEN "COMMON_BAD_REQUEST"
          ELSE "none"

CommentsInit ==
  /\ mComments = <<>>
  /\ mResp = [op |-> "none"]

\* createComment: the photo exists; the parent is checked, the moderation
\* hook consulted and the row inserted
CmCreate(authUser, photoId, parentId, action) ==
  /\ Len(mComments) < MaxComments
  /\ IF ~authUser.signedIn
     THEN mResp' = CmError("create", "AUTH_UNAUTHORIZED") /\ mComments' = mComments
     ELSE IF validateParent(mComments, parentId, photoId) # "none"
     THEN /\ mResp' = CmError("create", validateParent(mComments, parentId, photoId))
          /\ mComments' = mComments
     ELSE IF action = "reject"
     THEN mResp' = CmError("create", "COMMON_FORBIDDEN") /\ mComments' = mComments
     ELSE /\ mComments' =
               Append(mComments,
                      [id |-> Len(mComments) + 1, tenantId |-> CmTenant, photoId |-> photoId,
                       parentId |-> parentId, userId |-> authUser.id,
                       status |-> IF action = "flag_pending" THEN "pending" ELSE "approved",
                       deletedAt |-> FALSE])
          /\ mResp' = [op |-> "create", ok |-> TRUE, id |-> Len(mComments) + 1]
  /\ UNCHANGED notCmVars

\* softDelete
CmSoftDelete(authUser, commentId) ==
  /\ LET found == {c \in CmRowsById(mComments, commentId) : ~c.deletedAt}
     IN IF ~authUser.signedIn
        THEN mResp' = CmError("delete", "AUTH_UNAUTHORIZED") /\ mComments' = mComments
        ELSE IF found = {}
        THEN mResp' = CmError("delete", "COMMON_NOT_FOUND") /\ mComments' = mComments
        ELSE IF ~cmIsAdmin(authUser) /\ authUser.id # (CHOOSE c \in found : TRUE).userId
        THEN mResp' = CmError("delete", "COMMON_FORBIDDEN") /\ mComments' = mComments
        ELSE /\ mComments' = [i \in 1..Len(mComments) |->
                                IF mComments[i].id = commentId
                                THEN [mComments[i] EXCEPT !.status = "hidden", !.deletedAt = TRUE]
                                ELSE mComments[i]]
             /\ mResp' = [op |-> "delete", ok |-> TRUE, id |-> commentId]
  /\ UNCHANGED notCmVars

\* the moderation pipeline settles a comment that is not deleted
CmModerate(commentId, status) ==
  /\ \E i \in 1..Len(mComments) :
       /\ mComments[i].id = commentId
       /\ ~mComments[i].deletedAt
       /\ mComments[i].status # status
       /\ mComments' = [mComments EXCEPT ![i].status = status]
  /\ mResp' = [op |-> "moderate", ok |-> TRUE, id |-> commentId]
  /\ UNCHANGED notCmVars

\* listComments
CmList(authUser, query) ==
  /\ mResp' = listComments(mComments, query, authUser)
  /\ UNCHANGED <<mComments, notCmVars>>

\* getCommentCount
CmCount(authUser, photoId) ==
  /\ mResp' = getCommentCount(mComments, photoId, authUser)
  /\ UNCHANGED <<mComments, notCmVars>>

CmQueries ==
  { [photoId |-> ph, limit |-> l, cursor |-> cu] :
      ph \in CmPhotos, l \in {1, MaxComments}, cu \in {CmNoParent, 1} }

CommentsNext ==
  \/ \E authUser \in CmAuthors \cup {CmAnonymous}, photoId \in CmPhotos,
        parentId \in 0..MaxComments, action \in {"allow", "flag_pending", "reject"} :
       CmCreate(authUser, photoId, parentId, action)
  \/ \E authUser \in CmViewers, commentId \in 1..MaxComments : CmSoftDelete(authUser, commentId)
  \/ \E commentId \in 1..MaxComments, status \in {"approved", "rejected", "hidden"} :
       CmModerate(commentId, status)
  \/ \E authUser \in CmViewers, query \in CmQueries : CmList(authUser, query)
  \/ \E authUser \in CmViewers, photoId \in CmPhotos : CmCount(authUser, photoId)

CommentsStart ==
  /\ CommentsInit /\ RegRowsIdle /\ UniqueSlugIdle /\ CallbackIdle /\ now = 0 /\ ticks = 0
  /\ CodecIdle /\ GatewayIdle /\ AuthIdle /\ ResolverIdle /\ HooksIdle /\ FlowIdle /\ NewTenantIdle /\ TxIdle /\ NotifyIdle

SpecComments == CommentsStart /\ [][CommentsNext]_vars

(***************************************************************************)
(* CommentNotificationListener: the mails of one comment.created event     *)
(***************************************************************************)
NfUserIds == {"u1", "u2", "u3"}
NfNoEmail == ""
NfEmails == {"a@x", "b@x", "c@x", NfNoEmail}
NfNoRow == [id |-> "none", email |-> NfNoEmail, role |-> "none", tenantId |-> "none"]
\* the authors of the comments c1..c4; the author of c4 has no row
NfCommentAuthor == [c \in {"c1", "c2", "c3", "c4"} |-> 
                      IF c = "c1" THEN "u1" ELSE IF c = "c2" THEN "u2"
                      ELSE IF c = "c3" THEN "u3" ELSE "u0"]
NfNoParent == "none"

\* the row of a user, if there is one
NfUser(users, id) == IF id \in DOMAIN users THEN users[id] ELSE NfNoRow

\* comment-created.event.ts 1655-1664: the admins of the event's tenant
nfAdmins(users, event) ==
  {id \in DOMAIN users :
     /\ users[id].tenantId = event.tenantId
     /\ users[id].role = "admin" \/ users[id].role = "superadmin"}

\* comment-created.event.ts 1640: the parent's author is told of the reply
nfNotifyParentAuthor(users, event) ==
  /\ event.parentId # NfNoParent
  /\ event.parentId \in DOMAIN NfCommentAuthor
  /\ NfCommentAuthor[event.parentId] \in DOMAIN users
  /\ NfCommentAuthor[event.parentId] # event.userId
  /\ users[NfCommentAuthor[event.parentId]].email # NfNoEmail

\* a mutant: the commenter is not passed over among the admins
nfSkipAdmin_OnlySent(admin, event, sentEmails) == admin.email \in sentEmails

\* comment-created.event.ts 1667-1668
nfSkipAdmin(admin, event, sentEmails) ==
  admin.id = event.userId \/ admin.email \in sentEmails

NotifyInit ==
  /\ fUsers \in
       { [id \in NfUserIds |->
            [id |-> id, email |-> e[id], role |-> r[id],
             tenantId |-> IF id = "u3" THEN t3 ELSE "t1"]] :
           e \in [NfUserIds -> NfEmails],
           r \in {x \in [NfUserIds -> {"user", "admin", "superadmin"}] :
                    x["u1"] # "superadmin" /\ x["u2"] # "superadmin" /\ x["u3"] # "user"},
           t3 \in {"t1", "t2"} }
  /\ fEvent \in
       { [tenantId |-> "t1", userId |-> u, parentId |-> p] :
           u \in {"u1", "u0"}, p \in {NfNoParent, "c1", "c2", "c3", "c4", "c9"} }
  /\ fRun = [pc |-> "start", sentEmails |-> {}, admins |-> {}, mails |-> <<>>]

\* sendNotifications to the commenter's row: without it nothing is sent
NfCommenter ==
  /\ fRun.pc = "start"
  /\ fRun' = [fRun EXCEPT !.pc = IF fEvent.userId \in DOMAIN fUsers THEN "parent" ELSE "done"]
  /\ UNCHANGED <<fUsers, fEvent, notNfVars>>

\* the parent's author is mailed, or not, and the admins are read; a mail
\* that cannot be sent ends the listener
NfParent(thrown) ==
  /\ fRun.pc = "parent"
  /\ IF nfNotifyParentAuthor(fUsers, fEvent)
     THEN LET parentAuthor == fUsers[NfCommentAuthor[fEvent.parentId]]
              mail == [to |-> parentAuthor.email, userId |-> parentAuthor.id, kind |-> "reply"]
          IN IF thrown
             THEN fRun' = [fRun EXCEPT !.pc = "done", !.mails = Append(@, mail)]
             ELSE fRun' = [fRun EXCEPT !.pc = "admins", !.mails = Append(@, mail),
                                       !.sentEmails = @ \cup {parentAuthor.email},
                                       !.admins = nfAdmins(fUsers, fEvent)]
     ELSE /\ ~thrown
          /\ fRun' = [fRun EXCEPT !.pc = "admins", !.admins = nfAdmins(fUsers, fEvent)]
  /\ UNCHANGED <<fUsers, fEvent, notNfVars>>

\* the next admin of the query's answer, in whatever order it came
NfAdmin(id, thrown) ==
  /\ fRun.pc = "admins"
  /\ id \in fRun.admins
  /\ LET admin == fUsers[id]
         mail == [to |-> admin.email, userId |-> admin.id, kind |-> "comment"]
     IN IF nfSkipAdmin(admin, fEvent, fRun.sentEmails)
        THEN /\ ~thrown
             /\ fRun' = [fRun EXCEPT !.admins = @ \ {id}]
        ELSE IF thrown
        THEN fRun' = [fRun EXCEPT !.pc = "done", !.mails = Append(@, mail)]
        ELSE fRun' = [fRun EXCEPT !.admins = @ \ {id}, !.mails = Append(@, mail),
                                  !.sentEmails = @ \cup {admin.email}]
  /\ UNCHANGED <<fUsers, fEvent, notNfVars>>

\* the loop is over
NfReturn ==
  /\ fRun.pc = "admins"
  /\ fRun.admins = {}
  /\ fRun' = [fRun EXCEPT !.pc = "done"]
  /\ UNCHANGED <<fUsers, fEvent, notNfVars>>

NotifyNext ==
  \/ NfCommenter
  \/ \E thrown \in BOOLEAN : NfParent(thrown)
  \/ \E id \in NfUserIds, thrown \in BOOLEAN : NfAdmin(id, thrown)
  \/ NfReturn

NotifyStart ==
  /\ NotifyInit /\ RegRowsIdle /\ UniqueSlugIdle /\ CallbackIdle /\ now = 0 /\ ticks = 0
  /\ CodecIdle /\ GatewayIdle /\ AuthIdle /\ ResolverIdle /\ HooksIdle /\ FlowIdle /\ NewTenantIdle /\ TxIdle /\ CommentsIdle

SpecNotify == NotifyStart /\ [][NotifyNext]_vars

CallbackStart ==
  /\ CallbackInit /\ RegRowsIdle /\ UniqueSlugIdle
  /\ CodecIdle /\ GatewayIdle /\ AuthIdle /\ ResolverIdle /\ HooksIdle /\ FlowIdle /\ NewTenantIdle /\ TxIdle /\ CommentsIdle /\ NotifyIdle

\* the browser follows every redirect it is given
SpecCallback ==
  /\ CallbackStart
  /\ [][CallbackNext]_vars
  /\ WF_vars(CbFollow)

\* every findBySlug resolves: the loop's next turn is taken
SpecUniqueSlug ==
  /\ UniqueSlugStart
  /\ [][UniqueSlugNext]_vars
  /\ WF_vars(SlugAttempt)

(***************************************************************************)
(* Properties of the codec                                                 *)
(***************************************************************************)
\* the decode call at hand was given the token as the encoder returned it,
\* with the encoder's secret
CodecHonestDecode ==
  /\ cDec.run
  /\ cEnc.made
  /\ cTamper = "none"
  /\ cDec.options.secret = cEnc.options.secret
CodecTtl == IF cEnc.options.ttlMs = Undefined THEN 600000 ELSE cEnc.options.ttlMs.n
CodecTol ==
  IF cDec.options.clockToleranceMs = Undefined THEN 30000 ELSE cDec.options.clockToleranceMs.n

\* C3: decoding an encoded token with the same secret, no later than its expiry
\* plus the clock tolerance, returns a payload with the innerState, tenantSlug and
\* targetHost that were encoded (an omitted targetHost is encoded as null).
C3_RoundTrip ==
  (CodecHonestDecode /\ cDec.at <= cEnc.at + CodecTtl + CodecTol) =>
    /\ cDec.result # Null
    /\ Field(cDec.result, K_innerState) = cEnc.options.innerState
    /\ Field(cDec.result, K_tenantSlug) = cEnc.options.tenantSlug
    /\ Field(cDec.result, K_targetHost) =
         (IF cEnc.options.targetHost = Undefined THEN Null ELSE cEnc.options.targetHost)

C3_Witness ==
  /\ CodecHonestDecode
  /\ cDec.at > cEnc.at
  /\ cDec.result # Null
  /\ cEnc.options.innerState = JStr(<<"v", "\"", "1">>)
  /\ cEnc.options.tenantSlug = JStr(SlugAc)
  /\ cEnc.options.targetHost = Undefined

\* C4: a token that differs from an encoded token in one character of the payload
\* segment or of the signature segment decodes to null, and so does every token
\* decoded with another secret than it was signed with; a payload is returned only
\* for a token of two parts whose second part is the signature of the first under
\* the decoder's secret.
C4_TamperRejected ==
  cDec.run =>
    /\ cTamper \in {"payload", "signature", "dot"} => cDec.result = Null
    /\ (cEnc.made /\ cDec.options.secret # cEnc.options.secret) => cDec.result = Null
    /\ cDec.result # Null =>
         /\ cToken.t = "string"
         /\ LET parts == Split(cToken.s, ".")
            IN /\ Len(parts) = 2
               /\ parts[2] = cDec.options.secret \o <<"_">> \o parts[1]

C4_Witness ==
  /\ cDec.run
  /\ cTamper = "payload"
  /\ cDec.options.secret = cEnc.options.secret
  /\ cDec.result = Null

\* C5: a correctly signed token decodes to its payload exactly when
\* expiresAt + tolerance >= now, the boundary instant included; expiresAt is the
\* encoding instant plus the lifetime, 600000 ms by default, and the tolerance is
\* 30000 ms by default.
C5_Expiry ==
  CodecHonestDecode =>
    /\ (cDec.result # Null) <=> (cEnc.at + CodecTtl + CodecTol >= cDec.at)
    /\ cDec.result # Null => Field(cDec.result, K_expiresAt) = JNum(cEnc.at + CodecTtl)

C5_Witness ==
  /\ CodecHonestDecode
  /\ cEnc.options.ttlMs = Undefined
  /\ cDec.options.clockToleranceMs = Undefined
  /\ cDec.at = cEnc.at + 630000
  /\ cDec.result # Null

(***************************************************************************)
(* Properties of the gateway                                               *)
(***************************************************************************)
GwStateParam == ParamGet(gwReq.query, "state")
GwSlugParam == Coalesce(ParamGet(gwReq.query, "tenantSlug"), ParamGet(gwReq.query, "tenant"))
\* the request carries the issued token, signed with the gateway's secret, and
\* arrives no later than its expiry plus the default tolerance
GwStateDecodes ==
  /\ gwReq.made
  /\ gwIssued.made
  /\ GwStateParam = JStr(gwIssued.token)
  /\ gwIssued.options.secret = gwConfig.stateSecret
  /\ gwReq.at <= gwIssued.at + 600000 + 30000
GwSlugInState == GwStateDecodes /\ gwIssued.options.tenantSlug # Null
\* a host override is supplied, by the request or by the decoded state, and allowed
GwOverride ==
  /\ gwReq.made
  /\ gwConfig.allowCustomHost
  /\ \/ ParamGet(gwReq.query, "targetHost") # Null
     \/ GwStateDecodes /\ IsStr(gwIssued.options.targetHost)
GwSlugHost(slug) ==
  IF slug = gwConfig.rootSlug THEN gwConfig.baseDomain
  ELSE slug \o <<".">> \o gwConfig.baseDomain
GwRedirected == gwResp.made /\ gwResp.status = 302
GwRefused(code) == gwResp.made /\ gwResp.status = 400 /\ gwResp.error = code

C7_PresentStateRejected ==
  (gwResp.made /\ GwStateParam # Null /\ ~GwStateDecodes) => GwRefused("invalid_state")

\* C7 (amended): a request whose state parameter is present and not empty and does
\* not decode (not a token, changed, signed with another secret, expired) is
\* answered 400 invalid_state and never redirected, whatever slug parameter it has.
C7_InvalidStateRejected ==
  (gwResp.made /\ Truthy(GwStateParam) /\ ~GwStateDecodes) => GwRefused("invalid_state")

C7_Witness ==
  /\ gwReq.made
  /\ gwIssued.made
  /\ GwStateParam = JStr(gwIssued.token)
  /\ gwIssued.options.secret = gwConfig.stateSecret
  /\ gwReq.at = gwIssued.at + 600000 + 30000 + 1
  /\ ParamGet(gwReq.query, "tenantSlug") = JStr(SlugBt)
  /\ GwRefused("invalid_state")

\* C8: a redirect carries the request's code parameter unchanged and none of
\* tenant, tenantSlug and targetHost.
C8_QueryForwarded ==
  GwRedirected =>
    /\ gwResp.location.query["code"] = gwReq.query["code"]
    /\ gwResp.location.query["tenant"] = Undefined
    /\ gwResp.location.query["tenantSlug"] = Undefined
    /\ gwResp.location.query["targetHost"] = Undefined

C8_Witness ==
  /\ GwRedirected
  /\ gwReq.query["code"] = JStr(CodeXyz)
  /\ gwReq.query["tenant"] # Undefined
  /\ gwReq.query["tenantSlug"] # Undefined
  /\ gwReq.query["targetHost"] # Undefined

C10_AlwaysUnresolvable ==
  (gwResp.made /\ GwSlugParam = Null /\ ~GwSlugInState /\ ~GwOverride) =>
    GwRefused("unresolvable_host")

\* C10 (amended): a request with no slug parameter, no slug in a decoded state
\* and no permitted host override is never redirected: it is answered 400,
\* invalid_state when its state does not decode, invalid_host when its targetHost
\* is not a host and the decoded state names none, and unresolvable_host otherwise.
C10_NoHostNoRedirect ==
  (gwResp.made /\ GwSlugParam = Null /\ ~GwSlugInState /\ ~GwOverride) =>
    /\ gwResp.status = 400
    /\ gwResp.error =
         (IF Truthy(GwStateParam) /\ ~GwStateDecodes THEN "invalid_state"
          ELSE IF /\ Truthy(ParamGet(gwReq.query, "targetHost"))
                  /\ sanitizeExplicitHost(ParamGet(gwReq.query, "targetHost")) = Null
                  /\ ~(GwStateDecodes /\ IsStr(gwIssued.options.targetHost))
            THEN "invalid_host"
          ELSE "unresolvable_host")

C10_Witness ==
  /\ GwStateDecodes
  /\ ~GwSlugInState
  /\ GwSlugParam = Null
  /\ ParamGet(gwReq.query, "targetHost") = JStr(STR_localhost)
  /\ ~gwConfig.allowCustomHost
  /\ GwRefused("unresolvable_host")

\* the earlier request kept by the observer is the present one again
GwSameRequestAgain ==
  /\ gwResp.made
  /\ gwSeen.made
  /\ gwSeen.provider = gwReq.provider
  /\ gwSeen.query = gwReq.query
\* the last instant the issued state is accepted at
GwIssuedDeadline == gwIssued.at + DEFAULT_TTL_MS + DEFAULT_CLOCK_TOLERANCE_MS
\* the request carries the issued state, signed with the gateway's secret
GwCarriesIssuedState ==
  /\ gwIssued.made
  /\ GwStateParam = JStr(gwIssued.token)
  /\ gwIssued.options.secret = gwConfig.stateSecret

\* C11: two requests with the same provider path and the same query get the
\* same response (status, body, Location), whatever was handled before or
\* between them and whenever they arrive.
C11_SameRequestSameResponse == GwSameRequestAgain => gwResp = gwSeen.resp

\* C11 (amended): two requests with the same provider path and the same query
\* get the same response, whatever was handled before or between them,
\* provided that, when they carry a state signed with the gateway's secret,
\* both arrive no later than the state's expiry plus the tolerance or both
\* arrive after it.
C11_SameResponseSameSideOfExpiry ==
  (/\ GwSameRequestAgain
   /\ GwCarriesIssuedState =>
        ((gwSeen.at <= GwIssuedDeadline) <=> (gwReq.at <= GwIssuedDeadline)))
    => gwResp = gwSeen.resp

C11_Witness ==
  /\ GwSameRequestAgain
  /\ GwCarriesIssuedState
  /\ gwSeen.at = 0
  /\ gwReq.at = GwIssuedDeadline
  /\ GwRedirected
  /\ gwResp = gwSeen.resp

GwHostParam == ParamGet(gwReq.query, "targetHost")
\* the response the same request gets when it is sent without targetHost
GwResponseWithoutHost ==
  GatewayCallback(gwConfig, gwReq.provider, ParamDelete(gwReq.query, "targetHost"), gwReq.at)

ResHost ==
  normalizeHost(Coalesce(tReq.req.forwardedHost, Coalesce(tReq.req.hostHeader, Null)),
                tReq.req.origin)
\* resolve() has returned for a request that had no context attached
ResFresh == tReq.made /\ tOut.made /\ tOut.kind # "session" /\ tOut.given = Undefined
\* ... and it went past the initialization check
ResRan ==
  ResFresh /\ (tOut.before.initialized \/ tReq.options.skipInitializationCheck)
\* the slug the host names as a subdomain of the base domain
ResHostSlug ==
  IF Truthy(ResHost) THEN extractTenantSlugFromHost(ResHost.s, getBaseDomain(tOut.before))
  ELSE Null
\* the tenant the host names as a verified custom domain
ResDomainMatch ==
  IF Truthy(ResHost) THEN resolveTenantByDomain(tOut.before, ResHost.s) ELSE Null
\* /auth, /auth/*, /api/auth, /api/auth/*
ResAuthEntryPath ==
  \/ tReq.req.path \in {PATH_auth, PATH_apiAuth}
  \/ StartsWith(tReq.req.path, PATH_auth \o <<"/">>)
  \/ StartsWith(tReq.req.path, PATH_apiAuth \o <<"/">>)
\* the host is a subdomain of the base domain whose label is a slug no tenant has
ResNewSubdomain ==
  /\ Truthy(ResHostSlug)
  /\ ~isTenantSlugReserved(ResHostSlug.s)
  /\ ~\E r \in tOut.before.tenants : r.slug = ResHostSlug.s
\* the call created a pending tenant for the host's slug and returned it as a
\* placeholder
ResProvisioned ==
  /\ tOut.kind = "context"
  /\ tOut.context.tenant.slug = ResHostSlug.s
  /\ tOut.context.tenant.status = STR_pending
  /\ tOut.context.tenant \notin tOut.before.tenants
  /\ \E r \in tStore.tenants : r.id = tOut.context.tenant.id /\ r.slug = ResHostSlug.s
  /\ tOut.context.isPlaceholder
  /\ tOut.context.requestedSlug = ResHostSlug

\* C12: a first request on an auth-entry path whose host is a non-reserved
\* subdomain of the base domain with no tenant makes resolve() create a pending
\* tenant with that slug and return it as a placeholder with requestedSlug the
\* slug.
C12_FirstAuthContactProvisions ==
  (ResFresh /\ ResAuthEntryPath /\ ResNewSubdomain) => ResProvisioned

\* C12 (amended): the same, when the application is initialized (or the call
\* skips that check) and the host is not a verified custom domain.
C12_InitializedFirstAuthContactProvisions ==
  (ResRan /\ ResAuthEntryPath /\ ResNewSubdomain /\ ~Truthy(ResDomainMatch)) => ResProvisioned

C12_Witness ==
  /\ ResRan
  /\ tReq.req.path = PATH_apiAuth \o <<"/", "x">>
  /\ ResNewSubdomain
  /\ ResHostSlug = JStr(SlugNw)
  /\ ResProvisioned

\* isPlaceholder says that the tenant beside it is not active
PlaceholderMatchesStatus(x, tenant) == x.isPlaceholder <=> (tenant.status # STR_active)

\* C13: every context resolve() returns (by custom domain, by slug, by
\* provisioning), the context attached to the request, and the tenant object
\* in the body of GET /auth/session have isPlaceholder = TRUE exactly when the
\* tenant's status is not active.
C13_PlaceholderIffNotActive ==
  /\ (tOut.made /\ tOut.kind = "context")
       => PlaceholderMatchesStatus(tOut.context, tOut.context.tenant)
  /\ (tReq.made /\ tReq.attached # Undefined)
       => PlaceholderMatchesStatus(tReq.attached, tReq.attached.tenant)
  /\ (tOut.made /\ tOut.kind = "session" /\ tOut.body # Null)
       => PlaceholderMatchesStatus(tOut.body.tenant, tOut.body.tenant)

\* the session endpoint answers for a tenant activated after the request's
\* context was resolved as a placeholder
C13_Witness ==
  /\ tOut.made
  /\ tOut.kind = "session"
  /\ tOut.body # Null
  /\ tReq.attached # Undefined
  /\ tReq.attached.isPlaceholder
  /\ ~tOut.body.tenant.isPlaceholder
  /\ tOut.body.tenant.status = STR_active

\* C18: when a context is attached to the request, resolve() returns exactly
\* that context and calls nothing: no initialization check, no domain or slug
\* lookup, no state decoding, no provisioning; so repeated calls within the
\* request return the same context.
C18_AttachedContextReturned ==
  (tReq.made /\ tOut.made /\ tOut.kind # "session" /\ tOut.given # Undefined) =>
    /\ tOut.kind = "context"
    /\ tOut.context = tOut.given
    /\ tOut.given = tReq.attached
    /\ tOut.calls = {}

\* the second call returns the attached placeholder although the tenant has
\* been activated in between
C18_Witness ==
  /\ tReq.made /\ tOut.made /\ tOut.kind = "context"
  /\ tOut.given # Undefined
  /\ tOut.context = tOut.given
  /\ tOut.context.isPlaceholder
  /\ \E r \in tStore.tenants : r.id = tOut.context.tenant.id /\ r.status = STR_active

\* the slug the signed state of a callback names
ResStateSlug ==
  IF StartsWith(tReq.req.path, PATH_callbackPrefix)
  THEN Field(JsOr(decodeGatewayState(tReq.req.gatewayState,
                    [secret |-> ResSecret.s, clockToleranceMs |-> Undefined], now),
                  decodeGatewayState(tReq.req.state,
                    [secret |-> ResSecret.s, clockToleranceMs |-> Undefined], now)),
             K_tenantSlug)
  ELSE Undefined

\* C19: the slug is the one of the first source that yields one: verified
\* custom domain, subdomain of the base domain, signed state on a callback
\* path, root-tenant path; a source is consulted only when every source before
\* it yielded no slug; a custom-domain match gives the tenant without a lookup
\* by slug.
C19_SlugSourcePriority ==
  ResRan =>
    LET stateSlug == ResStateSlug
    IN
       /\ tOut.derivedSlug =
            (IF Truthy(ResDomainMatch) THEN JStr(ResDomainMatch.tenant.slug)
             ELSE IF Truthy(ResHostSlug) THEN ResHostSlug
             ELSE IF Truthy(stateSlug) THEN stateSlug
             ELSE IF isRootTenantPath(tReq.req.path) THEN JStr(ROOT_TENANT_SLUG)
             ELSE Undefined)
       /\ "extractTenantSlugFromHost" \in tOut.calls => ~Truthy(ResDomainMatch)
       /\ "decodeGatewayState" \in tOut.calls => ~Truthy(ResDomainMatch) /\ ~Truthy(ResHostSlug)
       /\ "isRootTenantPath" \in tOut.calls =>
            ~Truthy(ResDomainMatch) /\ ~Truthy(ResHostSlug) /\ ~Truthy(stateSlug)
       /\ Truthy(ResDomainMatch) =>
            /\ "tenantService.resolve" \notin tOut.calls
            /\ tOut.kind = "context"
            /\ tOut.context.tenant = ResDomainMatch.tenant

\* a callback on the apex host takes its slug from the signed state
C19_Witness ==
  /\ ResRan
  /\ ~Truthy(ResDomainMatch)
  /\ ~Truthy(ResHostSlug)
  /\ ResStateSlug = JStr(SlugNw)
  /\ tOut.derivedSlug = JStr(SlugNw)
  /\ "decodeGatewayState" \in tOut.calls

\* the path is a root-tenant prefix or below one
ResRootPath ==
  \E prefix \in ROOT_TENANT_PATH_PREFIXES :
    \/ ToLower(tReq.req.path) = prefix
    \/ StartsWith(ToLower(tReq.req.path), prefix \o <<"/">>)
\* the call resolved to the root tenant slug
ResToRoot ==
  /\ tOut.derivedSlug = JStr(ROOT_TENANT_SLUG)
  /\ tOut.kind = "context" =>
       /\ tOut.context.tenant.slug = ROOT_TENANT_SLUG
       /\ tOut.context.requestedSlug = JStr(ROOT_TENANT_SLUG)

\* C20: a request on a root-tenant path resolves to the root tenant slug,
\* whatever its host.
C20_RootPathAnyHost == (ResFresh /\ ResRootPath) => ResToRoot

\* C20 (amended): a request on a root-tenant path resolves to the root tenant
\* slug when the application is initialized (or the check is skipped) and the
\* host names no tenant: it is no verified custom domain and no non-reserved
\* subdomain of the base domain.
C20_RootPathHostWithoutSlug ==
  (ResRan /\ ResRootPath /\ ~Truthy(ResDomainMatch) /\ ~Truthy(ResHostSlug)) => ResToRoot

C20_Witness ==
  /\ ResRan
  /\ tReq.req.path = <<"/", "a", "p", "i", "/", "S", "e", "t", "t", "i", "n", "g", "s", "/", "x">>
  /\ ResHost = JStr(BaseDomain)
  /\ ResToRoot
  /\ tOut.kind = "context"

(***************************************************************************)
(* Properties of the databaseHooks                                         *)
(***************************************************************************)
\* C15: every user, session and account row created carries a tenant id, and
\* a create for which none can be determined (none attached to the request,
\* none obtainable from the slug) fails with BAD_REQUEST.
C15_NoRowWithoutTenant ==
  /\ \A row \in hRows : Truthy(row.tenantId)
  /\ (/\ hOut.made
      /\ ~Truthy(hOut.attached)
      /\ (~Truthy(hOut.tenantSlug) \/ hOut.provisionThrows))
       => ~hOut.ok

(***************************************************************************)
(* Properties of the resolver: provisioning, misses and the signed state   *)
(***************************************************************************)
\* a step in which resolve() is called and returns
ResResolveStep == tReq.made /\ tReq'.made /\ tReq'.calls = tReq.calls + 1

\* C21: resolve() creates a tenant only when no tenant has the derived slug, the
\* path is an auth-entry path and the slug is not reserved, and then it adds one
\* pending tenant with that slug; on any other path, or for a reserved slug, it
\* leaves the tenants as they are.
C21_ProvisionOnlyOnAuthEntry ==
  [][ResResolveStep =>
       /\ tStore'.tenants # tStore.tenants =>
            /\ Truthy(tOut'.derivedSlug)
            /\ ~\E r \in tStore.tenants : r.slug = tOut'.derivedSlug.s
            /\ ResAuthEntryPath
            /\ ~isTenantSlugReserved(tOut'.derivedSlug.s)
            /\ \E r \in tStore'.tenants :
                 /\ r.slug = tOut'.derivedSlug.s
                 /\ r.status = STR_pending
                 /\ tStore'.tenants = tStore.tenants \cup {r}
       /\ (\/ ~ResAuthEntryPath
           \/ (Truthy(tOut'.derivedSlug) /\ isTenantSlugReserved(tOut'.derivedSlug.s))) =>
            tStore' = tStore]_vars

\* a reserved slug arrived in the signed state of a callback, an auth-entry
\* path, no tenant has it, and none was created
C21_Witness ==
  /\ ResRan
  /\ ResAuthEntryPath
  /\ Truthy(tOut.derivedSlug)
  /\ isTenantSlugReserved(tOut.derivedSlug.s)
  /\ ~\E r \in tOut.before.tenants : r.slug = tOut.derivedSlug.s
  /\ tOut.kind = "none"
  /\ tStore = tOut.before

\* resolve() ended without a tenant
ResEndedWithoutTenant == ResFresh /\ tOut.kind \in {"none", "TENANT_NOT_FOUND"}

\* C22: when resolve() ends without a tenant it raises tenant-not-found exactly
\* when throwOnMissing is set and a slug had been derived; otherwise it returns
\* no context and raises nothing.
C22_NotFoundIffDemandedAndSlug ==
  ResEndedWithoutTenant =>
    /\ tOut.kind = "TENANT_NOT_FOUND" <=>
         (tReq.options.throwOnMissing /\ Truthy(tOut.derivedSlug))
    /\ tOut.context = Null

C22_Witness ==
  /\ ResEndedWithoutTenant
  /\ tOut.kind = "TENANT_NOT_FOUND"
  /\ tReq.options.throwOnMissing
  /\ tOut.derivedSlug = JStr(SlugNw)

\* ensurePendingTenant was called for the derived slug and no tenant with that
\* slug is there: the call failed
ResProvisionCallFailed ==
  /\ tReq.made
  /\ tOut.made
  /\ "ensurePendingTenant" \in tOut.calls
  /\ ~\E r \in tStore.tenants : r.slug = tOut.derivedSlug.s

\* C23: when the persistence call of auto-provisioning fails and the caller did
\* not set throwOnMissing, resolve() raises nothing and returns no context.
C23_ProvisionFailureGivesNoContext ==
  (ResProvisionCallFailed /\ ~tReq.options.throwOnMissing) =>
    /\ tOut.kind = "none"
    /\ tOut.context = Null

\* what resolve() gave, and what it gives for the same request without the
\* gatewayState and state parameters
ResOutcome == [kind |-> tOut.kind, context |-> tOut.context, derivedSlug |-> tOut.derivedSlug]
OutcomeOf(out) == [kind |-> out.kind, context |-> out.context, derivedSlug |-> out.derivedSlug]
ResOutcomeWithoutState ==
  OutcomeOf(resolve(tOut.before, Undefined,
                    [tReq.req EXCEPT !.gatewayState = Undefined, !.state = Undefined],
                    tReq.options, ResSecret, now))
ResCallbackPath == StartsWith(tReq.req.path, PATH_callbackPrefix)
ResDecoded(token) ==
  decodeGatewayState(token, [secret |-> ResSecret.s, clockToleranceMs |-> Undefined], now)
ResHostYieldsSlug == Truthy(ResDomainMatch) \/ Truthy(ResHostSlug)

\* C24: outside the callback prefix the gatewayState and state parameters never
\* influence what resolve() gives; on a callback path they are read only when
\* the host yielded no slug, gatewayState before state, and a token that does
\* not decode changes nothing and raises nothing.
C24_StateOnlyOnCallbacks ==
  ResRan =>
    LET decoded == ResDecoded(tReq.req.gatewayState)
    IN
       /\ ~ResCallbackPath =>
            /\ "decodeGatewayState" \notin tOut.calls
            /\ ResOutcome = ResOutcomeWithoutState
       /\ ResCallbackPath =>
            /\ "decodeGatewayState" \in tOut.calls <=> ~ResHostYieldsSlug
            /\ ResHostYieldsSlug => ResOutcome = ResOutcomeWithoutState
            /\ (~ResHostYieldsSlug /\ Truthy(decoded)) =>
                 tOut.derivedSlug =
                   (IF Truthy(Field(decoded, K_tenantSlug))
                    THEN Field(decoded, K_tenantSlug)
                    ELSE ResOutcomeWithoutState.derivedSlug)
            /\ (/\ ~Truthy(decoded)
                /\ ~Truthy(ResDecoded(tReq.req.state))) =>
                 ResOutcome = ResOutcomeWithoutState

\* a validly signed state naming a tenant arrives on a path that is not a
\* callback, on a host without a slug, and the tenant it names is not resolved
C24_Witness ==
  /\ ResRan
  /\ ~ResCallbackPath
  /\ ~ResHostYieldsSlug
  /\ Field(ResDecoded(tReq.req.gatewayState), K_tenantSlug) = JStr(SlugNw)
  /\ tOut.kind = "none"

(***************************************************************************)
(* Properties of a social sign-in and its callback                         *)
(***************************************************************************)
\* the sign-in was started under the slug of its host and the runtime's response
\* carried a state value
FlowStartedUnderSlug ==
  /\ oFlow.made
  /\ Truthy(oFlow.state)
  /\ signInTenantSlug(oFlow.context) = JStr(oFlow.slug)
\* what the state of the provider URL decodes to at the time of the sign-in
FlowWrapped ==
  decodeGatewayState(oFlow.url["state"], [secret |-> gwConfig.stateSecret,
                                          clockToleranceMs |-> Undefined], oFlow.at)
\* the provider has returned the state to the gateway within the token's lifetime
FlowReturnedInTime ==
  /\ gwReq.made
  /\ gwReq.at <= oFlow.at + DEFAULT_TTL_MS

\* C16: for a sign-in started under tenant slug S whose runtime response carries
\* state value V, the provider URL carries a token wrapping (S, V); when the
\* provider returns it to the gateway within its lifetime, the gateway redirects
\* to the host of tenant S with state = V, and the request that lands on the
\* tenant host carries state = V.
C16_StateRoundTrip ==
  FlowStartedUnderSlug =>
    /\ oFlow.url["state"] # oFlow.state
    /\ Truthy(FlowWrapped)
    /\ Field(FlowWrapped, K_tenantSlug) = JStr(oFlow.slug)
    /\ Field(FlowWrapped, K_innerState) = oFlow.state
    /\ FlowReturnedInTime =>
         /\ gwResp.status = 302
         /\ gwResp.location.host = GwSlugHost(oFlow.slug)
         /\ gwResp.location.query["state"] = oFlow.state
         /\ oFlow.landed.made =>
              /\ oFlow.landed.host = oFlow.slug \o <<".">> \o BaseDomain
              /\ oFlow.landed.state = oFlow.state

C16_Witness ==
  /\ FlowStartedUnderSlug
  /\ FlowReturnedInTime
  /\ gwReq.at > oFlow.at
  /\ oFlow.landed.made
  /\ oFlow.landed.state = JStr(InnerV)
  /\ oFlow.context.isPlaceholder

\* the sign-in and its callback have both been served by the core
FlowBothServed == oFlow.made /\ oFlow.landed.made
\* the protocol getAuth() takes for a request of the flow
FlowProtocol(forwardedProto) ==
  determineProtocol(oFlow.slug \o <<".">> \o BaseDomain, forwardedProto)

AuthPastCheck(c) == aCalls[c].pc \in {"awaitInstance", "done"}
AuthBuiltFor(cacheKey) == {p \in 1..Len(aPromises) : aPromises[p].cacheKey = cacheKey}

\* C1: for every cache key, createAuthForEndpoint is started exactly once however
\* many getAuth() calls computed the key and however they were interleaved, and
\* every call that returns gets the outcome of that one construction.
C1_SingleFlight ==
  /\ \A p, q \in 1..Len(aPromises) : aPromises[p].cacheKey = aPromises[q].cacheKey => p = q
  /\ \A c \in DOMAIN aCalls :
       AuthPastCheck(c) =>
         /\ Cardinality(AuthBuiltFor(aCalls[c].cacheKey)) = 1
         /\ aCalls[c].pc = "done" =>
              /\ aCalls[c].instance \in AuthBuiltFor(aCalls[c].cacheKey)
              /\ aCalls[c].outcome = aPromises[aCalls[c].instance].state

C1_Witness ==
  /\ DOMAIN aCalls = AuthCallIds
  /\ \A c \in AuthCallIds : aCalls[c].pc = "done" /\ aCalls[c].outcome = "fulfilled"
  /\ \A c, d \in AuthCallIds :
       /\ aCalls[c].cacheKey = aCalls[d].cacheKey
       /\ c # d => aCalls[c].req # aCalls[d].req
  /\ Len(aPromises) = 1

\* the slug of a request by the priority of the claim: the context's
\* requestedSlug, else the slug of the context's tenant, else the host's
AuthSlugByPriority(req, options) ==
  IF Truthy(req.requestedSlug) THEN JStr(ToLower(req.requestedSlug.s))
  ELSE IF Truthy(req.tenantSlug) THEN JStr(ToLower(req.tenantSlug.s))
  ELSE extractTenantSlugFromHost(
         ToLower(Trim(Coalesce(resolveRequestEndpoint(req).host,
                               JStr(ToLower(Trim(options.baseDomain)))).s)),
         options.baseDomain)
\* "::slug::" as it stands in a cache key
AuthSlugSegment(slug) ==
  <<":", ":">> \o (IF slug = Null THEN STR_null ELSE slug.s) \o <<":", ":">>
\* the text has the segment in it, at some position
HasSegment(text, segment) ==
  \E i \in 1..Len(text) :
    i + Len(segment) - 1 <= Len(text) /\ SubSeq(text, i, i + Len(segment) - 1) = segment

\* C25: the slug in the cache key of a getAuth() call is the context's
\* requestedSlug, else the slug of the context's tenant, else the slug of the
\* request host under the base domain (null when none), and the runtime the call
\* gets was built with that same slug for its provisioning callback.
C25_KeySlugPriority ==
  \A c \in DOMAIN aCalls :
    AuthPastCheck(c) =>
      LET p == aPromises[aInstances[aCalls[c].cacheKey]]
          slug == AuthSlugByPriority(aCalls[c].req, p.options)
      IN /\ HasSegment(aCalls[c].cacheKey,
                       AuthSlugSegment(slug) \o computeOptionsSignature(p.options))
         /\ p.tenantSlug = slug

C25_Witness ==
  \E c \in DOMAIN aCalls :
    /\ aCalls[c].pc = "done"
    /\ aCalls[c].req.requestedSlug = JStr(<<"n", "w">>)
    /\ aCalls[c].req.tenantSlug = JStr(SlugAc)
    /\ aPromises[aCalls[c].instance].tenantSlug = JStr(<<"n", "w">>)

\* C26: an entry of the cache, once present, stays present and mapped to the
\* same construction; and a getAuth() call gets the runtime built with the
\* configuration in force at the call, so that after a change of configuration
\* calls use a new key and a new instance.
C26_CacheOnlyGrows ==
  [][/\ \A k \in DOMAIN aInstances :
          /\ k \in DOMAIN aInstances'
          /\ aInstances'[k] = aInstances[k]
          /\ aPromises'[aInstances[k]].cacheKey = aPromises[aInstances[k]].cacheKey
          /\ aPromises'[aInstances[k]].options = aPromises[aInstances[k]].options
          /\ aPromises'[aInstances[k]].tenantSlug = aPromises[aInstances[k]].tenantSlug
     /\ \A c \in DOMAIN aCalls :
          (aCalls[c].pc = "getOptions" /\ aCalls'[c].pc = "awaitInstance") =>
            /\ aPromises'[aInstances'[aCalls'[c].cacheKey]].options = aOptions
            /\ \A k \in DOMAIN aInstances :
                 aPromises[aInstances[k]].options # aOptions => aCalls'[c].cacheKey # k
    ]_vars

\* the same request was served before and after a change of configuration, by
\* two constructions
C26_Witness ==
  /\ DOMAIN aCalls = AuthCallIds
  /\ \A c \in AuthCallIds : aCalls[c].pc = "done"
  /\ \E c, d \in AuthCallIds :
       /\ aCalls[c].req = aCalls[d].req
       /\ aCalls[c].instance # aCalls[d].instance
       /\ aPromises[aCalls[c].instance].options = OptionsV1
       /\ aPromises[aCalls[d].instance].options = OptionsV2
  /\ Cardinality(DOMAIN aInstances) = 2

\* the text is the base without the slashes at its end
IsWithoutTrailingSlashes(text, base) ==
  /\ Len(text) <= Len(base)
  /\ text = SubSeq(base, 1, Len(text))
  /\ \A i \in (Len(text) + 1)..Len(base) : base[i] = "/"
  /\ Len(text) > 0 => text[Len(text)] # "/"
\* the redirect URI is the gateway URL without trailing slashes followed by
\* /api/auth/callback/{provider}; there is none when no gateway is configured
RedirectUriFromGatewayOnly(entry, oauthGatewayUrl) ==
  IF Truthy(oauthGatewayUrl)
  THEN LET tail == STR_callbackBasePath \o <<"/">> \o entry.provider
           n == Len(entry.redirectURI.s) - Len(tail)
       IN /\ IsStr(entry.redirectURI)
          /\ n >= 0
          /\ SubSeq(entry.redirectURI.s, n + 1, Len(entry.redirectURI.s)) = tail
          /\ IsWithoutTrailingSlashes(SubSeq(entry.redirectURI.s, 1, n), oauthGatewayUrl.s)
  ELSE entry.redirectURI = Undefined

\* C27: the redirect URI of every provider of every runtime is the configured
\* gateway URL without trailing slashes followed by /api/auth/callback/{provider},
\* and two runtimes built with the same configuration, for whatever slugs and
\* hosts, have the same redirect URIs.
C27_RedirectUriFromGatewayOnly ==
  /\ \A p \in 1..Len(aPromises) :
       \A i \in DOMAIN aPromises[p].socialProviders :
         RedirectUriFromGatewayOnly(aPromises[p].socialProviders[i],
                                    aPromises[p].options.oauthGatewayUrl)
  /\ \A p, q \in 1..Len(aPromises) :
       aPromises[p].options = aPromises[q].options =>
         aPromises[p].socialProviders = aPromises[q].socialProviders

\* two runtimes built under a configured gateway for two different slugs
C27_Witness ==
  \E p, q \in 1..Len(aPromises) :
    /\ aPromises[p].options = aPromises[q].options
    /\ Truthy(aPromises[p].options.oauthGatewayUrl)
    /\ Truthy(aPromises[p].tenantSlug)
    /\ Truthy(aPromises[q].tenantSlug)
    /\ aPromises[p].tenantSlug # aPromises[q].tenantSlug
    /\ Len(aPromises[p].socialProviders) > 0
    /\ IsStr(aPromises[p].socialProviders[1].redirectURI)

\* C34: if construction of an identity-runtime instance fails, the failed
\* construction stays cached under its key: every later getAuth() call with the
\* same key receives the same failure and no new construction is ever started
\* for that key.
C34_FailureStaysCached ==
  \A p \in 1..Len(aPromises) :
    aPromises[p].state = "rejected" =>
      /\ aPromises[p].cacheKey \in DOMAIN aInstances
      /\ aInstances[aPromises[p].cacheKey] = p
      /\ \A q \in 1..Len(aPromises) : aPromises[q].cacheKey = aPromises[p].cacheKey => q = p
      /\ \A c \in DOMAIN aCalls :
           (aCalls[c].pc = "done" /\ aCalls[c].cacheKey = aPromises[p].cacheKey) =>
             aCalls[c].outcome = "rejected" /\ aCalls[c].instance = p

\* a call got the failure of a construction, and a call made after it, with the
\* same key, got the same failure of the same construction
C34_Witness ==
  /\ DOMAIN aCalls = AuthCallIds
  /\ Len(aPromises) = 1
  /\ aPromises[1].state = "rejected"
  /\ \A c \in AuthCallIds :
       aCalls[c].pc = "done" /\ aCalls[c].outcome = "rejected" /\ aCalls[c].instance = 1

(***************************************************************************)
(* Properties of the finalization                                          *)
(***************************************************************************)
\* the call was made for the pending tenant with input that passes the checks
\* made before the tenant's row is updated
RegReachedUpdate(c) ==
  /\ rCalls[c].pc = "done"
  /\ finalizeValidate(rCalls[c].params).ok
  /\ rUsers[rCalls[c].params.sessionUser.id].tenantId \in {NoId, TenantT1}
RegSucceeded(c) == rCalls[c].pc = "done" /\ rCalls[c].result.success
RegFailedWith(c, code) ==
  rCalls[c].pc = "done" /\ ~rCalls[c].result.success /\ rCalls[c].result.error = code

\* C2: of two concurrent finalize-pending-tenant calls for the same pending
\* tenant, exactly one succeeds, the tenant then being active, and the other one
\* fails with a conflict.
C2_ExactlyOneSucceeds ==
  (DOMAIN rCalls = RegCallIds /\ RegReachedUpdate(1) /\ RegReachedUpdate(2)) =>
    /\ rTenant.status = "active"
    /\ \/ RegSucceeded(1) /\ RegFailedWith(2, "conflict")
       \/ RegSucceeded(2) /\ RegFailedWith(1, "conflict")

\* the slug asked for in the input is not the slug of the pending tenant
RegSlugDiffers(params) ==
  /\ params.tenantInput # Undefined
  /\ ~IsNullish(params.tenantInput.slug)
  /\ ToLower(Trim(params.tenantInput.slug.s)) # ToLower(params.tenantContext.tenant.slug)
\* the call is made in this step
RegCalled(c) == rCalls[c].pc = "idle" /\ rCalls'[c].pc # "idle"
\* a call made with another slug than the tenant's ends at once with this
\* error and nothing is written
RegSlugDiffersEndsWith(code) ==
  \A c \in DOMAIN rCalls :
    (RegCalled(c) /\ RegSlugDiffers(rCalls'[c].params)) =>
      /\ rCalls'[c].pc = "done"
      /\ ~rCalls'[c].result.success
      /\ rCalls'[c].result.error = code
      /\ rTenant' = rTenant
      /\ rUsers' = rUsers

\* C28: finalizing a pending tenant with a requested slug that differs from the
\* tenant's current slug fails with a conflict error and leaves the tenant's
\* status and name and the user's tenant and role unchanged.
C28_SlugMismatchConflict == [][RegSlugDiffersEndsWith("conflict")]_vars

\* what part_001 244-251 does: the mismatch is thrown as COMMON_BAD_REQUEST, and
\* the tenant's status and name and the user's tenant and role stay unchanged.
C28_SlugMismatchBadRequest == [][RegSlugDiffersEndsWith("bad_request")]_vars

C28_Witness ==
  \E c \in DOMAIN rCalls :
    /\ rCalls[c].pc = "done"
    /\ rCalls[c].params.tenantInput.name = NameAcme
    /\ rCalls[c].params.tenantInput.slug = JStr(SlugBt)
    /\ RegFailedWith(c, "bad_request")
    /\ rTenant.status = "pending"

\* the call is made without a session user, or without asking for the session
\* account
RegWithoutSession(params) == ~params.useSessionAccount \/ params.sessionUser = Null

\* a call made without a session is rejected at once and writes nothing
RegRejectsWithoutSession ==
  \A c \in DOMAIN rCalls :
    (RegCalled(c) /\ RegWithoutSession(rCalls'[c].params)) =>
      /\ rCalls'[c].pc = "done"
      /\ ~rCalls'[c].result.success
      /\ rTenant' = rTenant

\* the tenant is made active only by the update of a call made with a session
RegActivatedForSessionUser ==
  (rTenant.status = "pending" /\ rTenant'.status = "active") =>
    \E c \in DOMAIN rCalls :
      /\ rCalls[c].pc = "updateTenant"
      /\ rCalls'[c].pc = "updateUser"
      /\ ~RegWithoutSession(rCalls[c].params)
      /\ rCalls[c].params.sessionUser.id \in RegUserIds

\* a call that has succeeded leaves the tenant active and its session user the
\* tenant's admin
RegSuccessMakesAdmin ==
  \A c \in DOMAIN rCalls :
    (rCalls'[c].pc = "done" /\ rCalls'[c].result.success) =>
      /\ rTenant'.status = "active"
      /\ rUsers'[rCalls'[c].params.sessionUser.id] = [tenantId |-> rTenant'.id, role |-> "admin"]

\* C29: a pending tenant becomes active through registration only on behalf of
\* an authenticated session user: without a session user, or without
\* useSessionAccount, finalization is rejected and the tenant stays pending;
\* after a successful finalization the tenant is active and that session user
\* belongs to it with role admin.
C29_ActiveOnlyForSessionUser ==
  [][RegRejectsWithoutSession /\ RegActivatedForSessionUser /\ RegSuccessMakesAdmin]_vars

\* one call was rejected for want of a session with the tenant still pending,
\* and another one has made its session user the admin
C29_Witness ==
  \E c, d \in DOMAIN rCalls :
    /\ rCalls[c].pc = "done"
    /\ rCalls[c].params.sessionUser = Null
    /\ RegFailedWith(c, "unauthorized")
    /\ RegSucceeded(d)
    /\ rCalls[d].params.useSessionAccount
    /\ rTenant.status = "active"
    /\ rUsers[rCalls[d].params.sessionUser.id].role = "admin"

(***************************************************************************)
(* Properties of generateUniqueSlug                                        *)
(***************************************************************************)
\* the k-th slug of the order base, base-2, base-3, ...
SlugInOrder(base, k) == IF k = 1 THEN base ELSE base \o <<"-">> \o NatToStr(k)

\* the call has returned the first candidate it found no tenant for, and none
\* it found a tenant for
SlugReturnedFirstFree ==
  LET n == Len(uCall.seen)
  IN /\ n \in 1..SLUG_ATTEMPTS
     /\ uCall.result.slug = SlugInOrder(uCall.base, n)
     /\ ~uCall.seen[n]
     /\ \A k \in 1..(n - 1) :
          uCall.seen[k] /\ uCall.result.slug # SlugInOrder(uCall.base, k)

\* the call has failed after finding a tenant for each of the 50 candidates
SlugFailedAllTaken ==
  /\ uCall.result.error = "bad_request"
  /\ Len(uCall.seen) = SLUG_ATTEMPTS
  /\ \A k \in 1..SLUG_ATTEMPTS : uCall.seen[k]

SlugCallSettled ==
  /\ uCall.pc = "loop" => uCall.attempt < SLUG_ATTEMPTS /\ Len(uCall.seen) = uCall.attempt
  /\ uCall.pc = "done" => IF uCall.result.ok THEN SlugReturnedFirstFree ELSE SlugFailedAllTaken

\* C30: generateUniqueSlug(base) always terminates: it returns the first
\* candidate in the order base, base-2, base-3, ..., base-50 for which no tenant
\* exists, and fails with a bad-request error when all 50 candidates are taken;
\* it never returns a slug that was found to exist.
C30_UniqueSlugFirstFree ==
  /\ []SlugCallSettled
  /\ (uCall.pc = "loop") ~> (uCall.pc = "done")

\* the call has returned the last candidate, base-50, the 49 before it taken
C30_Witness ==
  /\ uCall.pc = "done"
  /\ uCall.result.ok
  /\ Len(uCall.seen) = SLUG_ATTEMPTS
  /\ uCall.result.slug = uCall.base \o <<"-", "5", "0">>

\* the call has failed with all 50 candidates taken
SlugAllTakenSeen == uCall.pc = "done" /\ ~uCall.result.ok

(***************************************************************************)
(* Properties of registerNewTenant                                         *)
(***************************************************************************)
NewEnded(c) == nCalls[c].pc = "done"
NewFailedAfterCreate(c) ==
  NewEnded(c) /\ ~nCalls[c].result.success /\ nCalls[c].created # NoId

\* what a call that has ended has deleted: the tenant it created, once, when it
\* failed; nothing when it created none or succeeded
NewDeletedItsTenant ==
  \A c \in DOMAIN nCalls :
    NewEnded(c) =>
      nCalls[c].deleted = IF NewFailedAfterCreate(c) THEN <<nCalls[c].created>> ELSE <<>>

\* a deletion, failing or not, leaves the failure to report as it was
NewDeletionKeepsFailure ==
  \A c \in DOMAIN nCalls :
    (nCalls[c].pc \in {"deleteReturn", "deleteThrow", "deleteCaught"} /\ nCalls'[c] # nCalls[c]) =>
      /\ nCalls'[c].result = nCalls[c].result
      /\ ~nCalls'[c].result.success

\* C31: whenever new-tenant registration fails after the tenant row was created,
\* deletion of exactly that tenant is attempted before the failure is reported,
\* and a failing deletion does not replace the original failure; when
\* registration succeeds the tenant is not deleted.
C31_RollbackDeletesCreatedTenant ==
  /\ []NewDeletedItsTenant
  /\ [][NewDeletionKeepsFailure]_vars

\* a registration failed on its settings after its tenant was created, the
\* deletion was attempted and failed, and the failure reported is the rejection
C31_Witness ==
  \E c \in DOMAIN nCalls :
    /\ NewFailedAfterCreate(c)
    /\ nCalls[c].result.error = "bad_request"
    /\ nCalls[c].input.settings = NewRejectedSettings
    /\ nCalls[c].deleted = <<nCalls[c].created>>
    /\ \E r \in nTenants : r.id = nCalls[c].created

NewRolledBack(c) ==
  /\ NewFailedAfterCreate(c)
  /\ ~\E r \in nTenants : r.id = nCalls[c].created

\* C36: after a failed new-tenant registration whose tenant was rolled back, no
\* user row references the deleted tenant's id or holds the admin role for it.
C36_NoUserOfDeletedTenant ==
  \A c \in DOMAIN nCalls :
    NewRolledBack(c) => \A u \in DOMAIN nUsers : nUsers[u].tenantId # nCalls[c].created

(***************************************************************************)
(* Properties of the tenants' status                                       *)
(***************************************************************************)
\* each tenant of before that is still in after has its status, or was pending
\* and is active
StatusOnlyForward(before, after, pending, active) ==
  \A r \in before : \A r2 \in after :
    r2.id = r.id => (r2.status = r.status \/ (r.status = pending /\ r2.status = active))

\* a step in which a row is created through the databaseHooks
HookCreateStep == hOut' # hOut

\* auto-provisioning, by the resolver or by the auth provider, leaves every
\* tenant there is as it is and adds pending ones only
ProvisioningKeepsTenants ==
  (ResResolveStep \/ HookCreateStep) =>
    /\ tStore.tenants \subseteq tStore'.tenants
    /\ \A r \in tStore'.tenants \ tStore.tenants : r.status = STR_pending

CbRestored ==
  /\ kChain.made
  /\ kChain.hops > 0
  /\ ~Truthy(ParamGet(kChain.req.query, "tenantSlug"))

\* a restored request is handled by the identity runtime, not redirected, no
\* chain is longer than one redirect, and the runtime is never handed a state
\* that is still wrapped
CbRedirectsEnd ==
  /\ kChain.made => kChain.hops <= 1
  /\ CbRestored => callback(kChain.req, kChain.secret, now).kind = "handled"
  /\ kChain.made /\ kChain.handled =>
       ~Truthy(Field(callbackDecoded(kChain.req, kChain.secret, now), K_innerState))

\* C35: following the redirects issued by the core /auth/callback/* handler from
\* any initial callback request (wrapped state, legacy tenantSlug parameter, or
\* both) reaches the identity-runtime handler after finitely many redirects: a
\* redirected request that carries the restored inner state and no tenantSlug
\* parameter is handled, not redirected again.
C35_RedirectsReachHandler ==
  /\ []CbRedirectsEnd
  /\ kChain.made ~> (kChain.made /\ kChain.handled)

\* a request with a wrapped state and a tenantSlug parameter was redirected
\* once, with the inner state restored, and then handled
C35_Witness ==
  /\ kChain.made
  /\ kChain.handled
  /\ kChain.hops = 1
  /\ kChain.first.query["state"] = CbToken(SecretA, JStr(SlugAc), InnerV)
  /\ kChain.first.query["tenantSlug"] = JStr(SlugBt)
  /\ kChain.req.query["state"] = JStr(InnerV)
  /\ kChain.req.query["gatewayState"] = kChain.first.query["state"]
  /\ kChain.req.host = SlugBt \o <<".">> \o SlugAc \o <<".">> \o BaseDomain

(***************************************************************************)
(* Properties of the TransactionalStorageManager                           *)
(***************************************************************************)
TxStageStep == xHist'.staged # xHist.staged
TxFlushCompletes ==
  /\ xFlush.active \/ xHist'.flushes # xHist.flushes
  /\ ~xFlush'.active
  /\ xFlush'.outcome = "completed"
TxRollbackBeginStep == xHist'.rollbacks # xHist.rollbacks
TxRollbackCompletes ==
  /\ xRollback.active \/ TxRollbackBeginStep
  /\ ~xRollback'.active
  /\ xRollback'.outcome = "completed"

\* the storage holds no entry twice, and holds the entries in the order they
\* were staged
TxWritesOnceInOrder ==
  \A i, j \in 1..Len(xStore.writes) : i < j => xStore.writes[i].id < xStore.writes[j].id

\* only the flush writes, and it writes the entry it has reached in its batch
TxOnlyFlushWrites ==
  /\ TxStageStep => xStore' = xStore
  /\ xStore'.writes # xStore.writes =>
       /\ xFlush.active
       /\ xStore'.writes = Append(xStore.writes, xFlush.uploads[xFlush.index])

TxFlushWroteItsBatch ==
  TxFlushCompletes =>
    /\ \A i \in 1..Len(xFlush'.uploads) :
         \E j \in 1..Len(xStore'.writes) : xStore'.writes[j] = xFlush'.uploads[i]
    /\ \A i \in 1..Len(xPending') : xPending'[i].id > xFlush'.mark
    /\ xHist'.staged = xFlush'.mark => ~hasPendingUploads(xPending')

TxRollbackAttemptedItsKeys ==
  TxRollbackCompletes =>
    /\ {xRollback'.attempts[i] : i \in 1..Len(xRollback'.attempts)} = xRollback'.expected
    /\ Len(xRollback'.attempts) = Cardinality(xRollback'.expected)

\* the statement as made: nothing is pending after a rollback, and a rollback
\* called right after another deletes nothing
C38_RollbackDeletesWrittenKeys ==
  [][/\ TxRollbackAttemptedItsKeys
     /\ TxRollbackCompletes => ~hasPendingUploads(xPending')
     /\ TxRollbackBeginStep /\ xHist.last = "rollback" /\ xRollback.outcome = "completed" =>
          xRollback'.keys = <<>> /\ xStore' = xStore]_vars

\* what is pending after a rollback was staged while it was deleting; a
\* rollback called when nothing was written since the one before deletes
\* nothing
TxRollbackLeavesNothing ==
  /\ TxRollbackCompletes =>
       /\ \A i \in 1..Len(xPending') : xPending'[i].id > xRollback'.mark
       /\ xHist'.staged = xRollback'.mark => ~hasPendingUploads(xPending')
  /\ TxRollbackBeginStep /\ xHist.since = {} =>
       xRollback'.keys = <<>> /\ xStore' = xStore /\ xRollback'.outcome = "completed"

\* C38: after rollbackUploads(), deletion has been attempted, once each, for
\* exactly the keys that flushUploads wrote successfully between the previous
\* rollbackUploads call and this one (including those written before a flush
\* failed part-way); a failed deletion of one key does not stop the others; the
\* uploads pending at the call are dropped, so no upload is pending unless one
\* was staged while the deletions ran; and a repeated rollbackUploads() deletes
\* nothing when no flush has written since the previous call.
C38_RollbackDeletesWrittenKeysSinceLastCall ==
  [][TxRollbackAttemptedItsKeys /\ TxRollbackLeavesNothing]_vars

\* a flush wrote k1 and k2 and failed at its third entry; the rollback asked
\* for the deletion of k1, which failed, and then of k2, and a second rollback
\* right after it deleted nothing
C38_Witness ==
  /\ xFlush.outcome = "failed"
  /\ Len(xStore.writes) = 2
  /\ xHist.rollbacks = 2
  /\ xRollback.outcome = "completed"
  /\ xRollback.keys = <<>>
  /\ Len(xStore.deletes) = 2
  /\ ~xStore.deletes[1].ok
  /\ xStore.deletes[2].ok
  /\ xStore.deletes[1].key # xStore.deletes[2].key
  /\ ~hasPendingUploads(xPending)

(***************************************************************************)
(* Properties of the comments shown                                        *)
(***************************************************************************)
\* a comment the viewer may be shown: not soft-deleted, and approved, or
\* pending and the viewer's own or the viewer an admin
CmVisibleTo(c, viewer) ==
  /\ ~c.deletedAt
  /\ \/ c.status = "approved"
     \/ c.status = "pending" /\ viewer.signedIn
          /\ (c.userId = viewer.id \/ viewer.role \in {"admin", "superadmin"})

\* C39: the response of listComments (its comments and its relations) and the
\* number returned by getCommentCount never include a soft-deleted, hidden or
\* rejected comment, and include a pending comment only when the viewer is its
\* author or has role admin or superadmin.
C39_OnlyVisibleCommentsShown ==
  /\ mResp.op = "list" /\ mResp.ok =>
       /\ \A i \in 1..Len(mResp.comments) : CmVisibleTo(mResp.comments[i], mResp.viewer)
       /\ \A r \in mResp.relations : CmVisibleTo(r, mResp.viewer)
  /\ mResp.op = "count" /\ mResp.ok =>
       mResp.count <= Cardinality({i \in 1..Len(mComments) :
                                     /\ mComments[i].photoId = mResp.photoId
                                     /\ CmVisibleTo(mComments[i], mResp.viewer)})

(***************************************************************************)
(* Properties of the comment notifications                                 *)
(***************************************************************************)
\* C40: for one comment.created event, the notification listener sends at
\* most one email to any email address and never sends one to the user who
\* wrote the comment, whether that user is the parent comment's author, a
\* tenant admin, or both; where no other user has the writer's address, no
\* mail goes to that address.
C40_OneMailPerAddressNoneToWriter ==
  fRun.pc # "idle" =>
    /\ \A i, j \in 1..Len(fRun.mails) : i # j => fRun.mails[i].to # fRun.mails[j].to
    /\ \A i \in 1..Len(fRun.mails) : fRun.mails[i].userId # fEvent.userId
    /\ (/\ fEvent.userId \in DOMAIN fUsers
        /\ \A id \in DOMAIN fUsers \ {fEvent.userId} :
             fUsers[id].email # fUsers[fEvent.userId].email) =>
         \A i \in 1..Len(fRun.mails) : fRun.mails[i].to # fUsers[fEvent.userId].email

\* the writer is an admin replying to a comment of their own; the two other
\* admins were mailed, once each, and the writer was not
C40_Witness ==
  /\ fRun.pc = "done"
  /\ fEvent.userId = "u1"
  /\ fEvent.parentId = "c1"
  /\ fUsers["u1"].role = "admin"
  /\ fUsers["u1"].email = "a@x"
  /\ Len(fRun.mails) = 2
  /\ {fRun.mails[i].userId : i \in 1..Len(fRun.mails)} = {"u2", "u3"}
  /\ fRun.sentEmails = {"b@x", "c@x"}

====
